---- MODULE Spec2Model ----
(***************************************************************************)
(* The data store of the travel-agency back office                          *)
(* (src/context/DataContext.tsx, DataProvider) as a state machine: the      *)
(* React state of the provider, one action per store operation, and the     *)
(* smart-alert generator as an operator.                                    *)
(*                                                                          *)
(* Conventions                                                              *)
(*  - money is counted in hundredths of a JOD, so the code's 0.01 is 1;     *)
(*  - a date string 'YYYY-MM-DD' is a day number; an instant (a JS Date) is *)
(*    a number of hours, UTC; the browser's zone is tzOffset hours east;    *)
(*  - a string that the code searches with includes() is a sequence of      *)
(*    one-token strings;                                                    *)
(*  - every store operation is called from a user event on the re-rendered  *)
(*    provider: its closure holds the current state, and the clock has      *)
(*    advanced by at least a millisecond since the previous event.          *)
(***************************************************************************)
EXTENDS Integers, Sequences, FiniteSets, TLC

VARIABLES
    loaded,             \* the mount effect (line 405) has run
    users,              \* useState line 46
    storedUser,         \* localStorage['hawana_current_user']
    bookingsPage,       \* line 51
    transactionsPage,   \* line 55
    supabaseCalls,      \* the tables the supabase client has been asked for
    clock,              \* Date.now(), milliseconds
    tzOffset,           \* the browser's time zone, hours east of UTC
    currentUser,        \* useState line 47
    bookings,           \* line 50, the page shown in the table
    bookingsTotal,      \* line 52
    allBookings,        \* line 59
    transactions,       \* line 54
    transactionsTotal,  \* line 56
    allTransactions,    \* line 60
    agents,             \* line 62
    clients,            \* line 63
    treasury,           \* line 64
    auditLogs,          \* line 70
    companySettings,    \* line 118
    storedSettings,     \* localStorage['hawana_company_settings']
    smartAlerts,        \* line 75
    notification,       \* line 142
    timers,             \* the pending setTimeout callbacks of showNotification, each
                        \* with the notification its call created (it reads only the id)
    listFilters,        \* BookingsList: searchTerm, dateFrom, dateTo, filterType (lines 10-15)
    delayDebounceFn,    \* BookingsList: the pending timeout of the filter effect (line 42)
    lastOp,             \* the operation that produced this state, with its arguments
    prev,               \* the store as it was when lastOp was called
    prevOp,             \* the operation before lastOp
    prev2               \* the store as it was when prevOp was called

vars == <<loaded, users, storedUser, bookingsPage, transactionsPage, supabaseCalls,
          clock, tzOffset, currentUser, bookings, bookingsTotal, allBookings,
          transactions, transactionsTotal, allTransactions, agents, clients, treasury,
          auditLogs, companySettings, storedSettings, smartAlerts, notification, timers,
          listFilters, delayDebounceFn, lastOp, prev, prevOp, prev2>>

\* The state of the bookings list
listVars == <<listFilters, delayDebounceFn>>

-----------------------------------------------------------------------------
(* Bounds of the model *)

\* Date.now() when the page is mounted.
Epoch == 1000
\* Number of store operations after the mount.
MaxOps == 3
\* The local calendar day on which the session runs.
Today == 20
\* Services of the large booking that the alert inputs draw from.
ManyServices == 11

\* Bookings in the longest list the bookings page is fetched from.
MaxListedBookings == 27

\* Calls of showNotification whose timeout is pending at the same time.
MaxPendingTimers == 3

\* Bookings in the lists the alert generator is run on.
MaxAlertBookings == 3

\* Time zones of the browser, hours east of UTC: New York, UTC, Amman.
TZOffsets == {-5, 0, 3}

-----------------------------------------------------------------------------
(* Values *)

\* An optional id that is not set (undefined or ''), falsy in the code's tests.
NoId == 0
\* An optional date string that is not set.
NoDate == 0
\* An empty string
NoText == << >>

\* The store with the remote client switched on
DEMO_MODE_Off == FALSE
\* const DEMO_MODE = true, line 10
DEMO_MODE == TRUE

\* The code's 0.01, in hundredths.
Epsilon == 1
PAGE_SIZE == 25
\* sortedAlerts.slice(0, 20)
AlertCap == 20

CONFIRMED == "Confirmed"
PENDING == "Pending"
CANCELLED == "Cancelled"
VOIDED == "Voided"
INCOME == "Income"
EXPENSE == "Expense"

\* Transaction categories that deleteTransaction looks at, and any other.
CAT_CLIENT_RECEIPTS == "client-receipts"
CAT_BOOKING_RECEIPTS == "booking-receipts"
CAT_SUPPLIER_PAYMENTS == "supplier-payments"
CAT_OTHER == "other"

DEFAULT_ALERT_SETTINGS ==
    [enableFinancialAlerts |-> TRUE, financialAlertDays |-> 3,
     enablePassportAlerts |-> TRUE, passportAlertDays |-> 7,
     enableFlightAlerts |-> TRUE, flightAlertDays |-> 1,
     enableHotelAlerts |-> TRUE, hotelAlertDays |-> 1]

DEFAULT_COMPANY_SETTINGS == [alertSettings |-> DEFAULT_ALERT_SETTINGS]

-----------------------------------------------------------------------------
(* Sequence helpers: Array.prototype.map / filter / find / reduce / includes *)

Min(a, b) == IF a < b THEN a ELSE b

RECURSIVE SumSeq(_)
SumSeq(s) == IF s = << >> THEN 0 ELSE Head(s) + SumSeq(Tail(s))

MapSeq(s, F(_)) == [i \in 1..Len(s) |-> F(s[i])]

\* The index of the first element satisfying P, or 0: Array.prototype.find.
FindIndex(s, P(_)) ==
    IF \E i \in 1..Len(s) : P(s[i])
    THEN CHOOSE i \in 1..Len(s) : P(s[i]) /\ \A j \in 1..(i - 1) : ~P(s[j])
    ELSE 0

\* String.prototype.includes
Includes(text, part) ==
    \E i \in 0..(Len(text) - Len(part)) : SubSeq(text, i + 1, i + Len(part)) = part

\* String.prototype.toLowerCase, a character at a time
LowerChar(c) ==
    CASE c = "A" -> "a" [] c = "B" -> "b" [] c = "F" -> "f" [] c = "P" -> "p"
      [] c = "T" -> "t" [] OTHER -> c
ToLowerCase(text) == [i \in 1..Len(text) |-> LowerChar(text[i])]

\* Array.prototype.slice(from, to), 0-based, end exclusive
Slice(s, from, to) == SubSeq(s, from + 1, Min(to, Len(s)))

RECURSIVE Flatten(_)
Flatten(ss) == IF ss = << >> THEN << >> ELSE Head(ss) \o Flatten(Tail(ss))

-----------------------------------------------------------------------------
(* Dates *)

\* new Date('YYYY-MM-DD'): midnight UTC of that day.
ParseDate(day) == day * 24
\* new Date(y, m, d): midnight of that day in the browser's zone.
LocalMidnight(day, tz) == day * 24 - tz
\* getFullYear/getMonth/getDate of an instant: its calendar day in the browser's zone.
LocalDay(instant, tz) == (instant + tz) \div 24
\* new Date(d.getFullYear(), d.getMonth(), d.getDate())
DateOnly(instant, tz) == LocalMidnight(LocalDay(instant, tz), tz)
\* getTargetDate(days), line 160
getTargetDate(today, days, tz) == LocalMidnight(today + days, tz)
\* alertPrefs.xAlertDays || dflt
OrDefault(days, dflt) == IF days = 0 THEN dflt ELSE days

-----------------------------------------------------------------------------
(* Smart alerts: generateSmartAlerts, lines 153-261 *)

\* An alert: the kind and entity of its id (`fin-urgent-${booking.id}`, ...), its
\* type and category, and the values its message is built from.
Alert(kind, entity, type, category, client, info) ==
    [id |-> <<kind, entity>>, type |-> type, category |-> category,
     client |-> client, info |-> info]

\* currentSettings.alertSettings || DEFAULT_COMPANY_SETTINGS.alertSettings
AlertPrefs(settings) == settings.alertSettings

\* The body of the financial check, lines 177-201
FinancialAlertsEnabled(booking, prefs, today, tz) ==
    LET travelDate == ParseDate(booking.date)
        isUpcoming == travelDate >= LocalMidnight(today, tz)
        financialThresholdDate ==
            getTargetDate(today, OrDefault(prefs.financialAlertDays, 3), tz)
        remaining == booking.amount - booking.paidAmount
    IN  IF /\ isUpcoming
           /\ travelDate <= financialThresholdDate
           /\ remaining > Epsilon
           /\ booking.status = CONFIRMED
        THEN << Alert("fin-urgent", booking.id, "critical", "Finance",
                      booking.clientName, <<remaining>>) >>
        ELSE IF /\ remaining > Epsilon
                /\ booking.status # CANCELLED
                /\ booking.status # VOIDED
                /\ isUpcoming
        THEN << Alert("fin", booking.id, "warning", "Finance",
                      booking.clientName, <<remaining>>) >>
        ELSE << >>

\* The financial check with its switch ignored.
FinancialAlerts_IgnoreSwitch(booking, prefs, today, tz) ==
    FinancialAlertsEnabled(booking, prefs, today, tz)

\* 1. URGENT FINANCIAL CHECK, lines 176-202
FinancialAlerts(booking, prefs, today, tz) ==
    IF prefs.enableFinancialAlerts
    THEN FinancialAlertsEnabled(booking, prefs, today, tz)
    ELSE << >>

\* 2. PASSPORT CHECK, lines 205-218. A passenger is its passportSubmitted flag.
PassportAlerts(booking, prefs, today, tz) ==
    LET travelDate == ParseDate(booking.date)
        isUpcoming == travelDate >= LocalMidnight(today, tz)
        passportThresholdDate ==
            getTargetDate(today, OrDefault(prefs.passportAlertDays, 7), tz)
        missingPassports ==
            Cardinality({i \in 1..Len(booking.passengers) : ~booking.passengers[i]})
    IN  IF /\ prefs.enablePassportAlerts
           /\ booking.status = CONFIRMED
           /\ isUpcoming
           /\ travelDate <= passportThresholdDate
           /\ missingPassports > 0
        THEN << Alert("pp", booking.id, "warning", "Booking",
                      booking.clientName, <<missingPassports>>) >>
        ELSE << >>

\* The flight reminder of one service, lines 222-236
FlightAlerts(booking, service, prefs, today, tz) ==
    LET flightThresholdDate ==
            getTargetDate(today, OrDefault(prefs.flightAlertDays, 1), tz)
    IN  IF /\ prefs.enableFlightAlerts
           /\ service.type = "Flight"
           /\ service.flightDate # NoDate
           /\ booking.status = CONFIRMED
           /\ DateOnly(ParseDate(service.flightDate), tz) = flightThresholdDate
        THEN << Alert("flight", service.id, "info", "Flight",
                      booking.clientName, <<service.flightDate>>) >>
        ELSE << >>

\* The check-in reminder of one service, lines 237-251
HotelAlerts(booking, service, prefs, today, tz) ==
    LET hotelThresholdDate ==
            getTargetDate(today, OrDefault(prefs.hotelAlertDays, 1), tz)
    IN  IF /\ prefs.enableHotelAlerts
           /\ service.type = "Hotel"
           /\ service.checkIn # NoDate
           /\ booking.status = CONFIRMED
           /\ DateOnly(ParseDate(service.checkIn), tz) = hotelThresholdDate
        THEN << Alert("hotel", service.id, "info", "Booking",
                      booking.clientName, <<service.checkIn>>) >>
        ELSE << >>

\* 3. SERVICE CHECKS: booking.services.forEach, lines 221-252
ServiceAlerts(booking, prefs, today, tz) ==
    Flatten([i \in 1..Len(booking.services) |->
                FlightAlerts(booking, booking.services[i], prefs, today, tz)
                \o HotelAlerts(booking, booking.services[i], prefs, today, tz)])

\* One pass of bookingsData.forEach, lines 171-253
BookingAlerts(booking, prefs, today, tz) ==
    FinancialAlerts(booking, prefs, today, tz)
    \o PassportAlerts(booking, prefs, today, tz)
    \o ServiceAlerts(booking, prefs, today, tz)

\* The alerts pushed by the whole loop, in the order pushed
CollectAlerts(bookingsData, prefs, today, tz) ==
    Flatten([i \in 1..Len(bookingsData) |-> BookingAlerts(bookingsData[i], prefs, today, tz)])

\* const priority = { 'critical': 0, 'warning': 1, 'info': 2 }, line 256
Priority(type) == CASE type = "critical" -> 0 [] type = "warning" -> 1 [] OTHER -> 2

\* Insert alert a after every element that does not compare greater than it.
RECURSIVE InsertByPriority(_, _)
InsertByPriority(sorted, a) ==
    IF sorted = << >> THEN <<a>>
    ELSE IF Priority(Head(sorted).type) - Priority(a.type) > 0
         THEN <<a>> \o sorted
         ELSE <<Head(sorted)>> \o InsertByPriority(Tail(sorted), a)

\* alerts.sort((a, b) => priority[a.type] - priority[b.type]), lines 255-258;
\* Array.prototype.sort is stable.
RECURSIVE SortAlerts(_)
SortAlerts(alerts) ==
    IF alerts = << >> THEN << >>
    ELSE InsertByPriority(SortAlerts(SubSeq(alerts, 1, Len(alerts) - 1)), alerts[Len(alerts)])

\* sortedAlerts.slice(0, 20), line 260
CapAlerts(sortedAlerts) == Slice(sortedAlerts, 0, AlertCap)

\* generateSmartAlerts with the cap applied before the sort
GenerateSmartAlerts_CapFirst(bookingsData, currentSettings, today, tz) ==
    SortAlerts(CapAlerts(CollectAlerts(bookingsData, AlertPrefs(currentSettings), today, tz)))

\* The value generateSmartAlerts passes to setSmartAlerts
GenerateSmartAlerts(bookingsData, currentSettings, today, tz) ==
    CapAlerts(SortAlerts(CollectAlerts(bookingsData, AlertPrefs(currentSettings), today, tz)))

-----------------------------------------------------------------------------
(* Records *)

\* { ...r, ...d }
Merge(r, d) == [f \in (DOMAIN r) \cup (DOMAIN d) |-> IF f \in DOMAIN d THEN d[f] ELSE r[f]]

\* currentUser ? currentUser.name : 'System'
UserName(user) == IF user = << >> THEN "System" ELSE user[1].name

\* JSON text is the sequence of its members, each a name and the text of its
\* value; true and false are written as words and a number in decimal digits.
JSONBoolean(b) == IF b THEN "true" ELSE "false"
JSONNumber(n) == ToString(n)

\* JSON.stringify(settings): the members in insertion order
JSONStringify(settings) ==
    LET a == settings.alertSettings
    IN  << <<"alertSettings",
              << <<"enableFinancialAlerts", JSONBoolean(a.enableFinancialAlerts)>>,
                 <<"financialAlertDays", JSONNumber(a.financialAlertDays)>>,
                 <<"enablePassportAlerts", JSONBoolean(a.enablePassportAlerts)>>,
                 <<"passportAlertDays", JSONNumber(a.passportAlertDays)>>,
                 <<"enableFlightAlerts", JSONBoolean(a.enableFlightAlerts)>>,
                 <<"flightAlertDays", JSONNumber(a.flightAlertDays)>>,
                 <<"enableHotelAlerts", JSONBoolean(a.enableHotelAlerts)>>,
                 <<"hotelAlertDays", JSONNumber(a.hotelAlertDays)>> >> >> >>

HasMember(object, name) == \E i \in 1..Len(object) : object[i][1] = name
Member(object, name) == object[CHOOSE i \in 1..Len(object) : object[i][1] = name][2]

ParseBoolean(text) == text = "true"
\* The day counts the inputs of the settings form accept are 0..30
ParseNumber(text) == CHOOSE n \in 0..30 : ToString(n) = text

\* JSON.parse of the text of company settings
JSONParse(text) ==
    IF HasMember(text, "alertSettings")
    THEN LET a == Member(text, "alertSettings")
         IN  [alertSettings |->
                [enableFinancialAlerts |-> ParseBoolean(Member(a, "enableFinancialAlerts")),
                 financialAlertDays |-> ParseNumber(Member(a, "financialAlertDays")),
                 enablePassportAlerts |-> ParseBoolean(Member(a, "enablePassportAlerts")),
                 passportAlertDays |-> ParseNumber(Member(a, "passportAlertDays")),
                 enableFlightAlerts |-> ParseBoolean(Member(a, "enableFlightAlerts")),
                 flightAlertDays |-> ParseNumber(Member(a, "flightAlertDays")),
                 enableHotelAlerts |-> ParseBoolean(Member(a, "enableHotelAlerts")),
                 hotelAlertDays |-> ParseNumber(Member(a, "hotelAlertDays"))]]
    ELSE << >>

\* The text of a string value, in quotes
JSONString(s) == "'" \o s \o "'"
\* The strings a user record of the model can hold
UserTexts == {"admin", "old", "pw", "x", "Admin", "Old", "Manager"}
ParseString(text) == CHOOSE s \in UserTexts : JSONString(s) = text
\* The ids of the model's users are below 100
ParseId(text) == CHOOSE n \in 0..99 : ToString(n) = text

\* JSON.stringify(user), lines 448 and 478
JSONStringifyUser(user) ==
    << <<"id", JSONNumber(user.id)>>,
       <<"username", JSONString(user.username)>>,
       <<"password", JSONString(user.password)>>,
       <<"name", JSONString(user.name)>>,
       <<"isActive", JSONBoolean(user.isActive)>> >>

\* JSON.parse(savedUser), line 408
JSONParseUser(text) ==
    [id |-> ParseId(Member(text, "id")),
     username |-> ParseString(Member(text, "username")),
     password |-> ParseString(Member(text, "password")),
     name |-> ParseString(Member(text, "name")),
     isActive |-> ParseBoolean(Member(text, "isActive"))]

\* Company settings that forget what was saved
InitialCompanySettings_Default(saved) == DEFAULT_COMPANY_SETTINGS

\* The initialiser of companySettings, lines 118-123; saved is << >> for null
InitialCompanySettings(saved) ==
    LET settings == IF saved # << >> THEN JSONParse(saved) ELSE DEFAULT_COMPANY_SETTINGS
    IN  IF "alertSettings" \notin DOMAIN settings
        THEN Merge(settings, [alertSettings |-> DEFAULT_ALERT_SETTINGS])
        ELSE settings

\* `B${n}` and the like, as the tokens of a string
IdText(prefix, n) == <<prefix, ToString(n)>>

-----------------------------------------------------------------------------
(* The demo data of ../constants, loaded at mount *)

Flight(id, day) == [id |-> id, type |-> "Flight", flightDate |-> day, checkIn |-> NoDate]
Hotel(id, day) == [id |-> id, type |-> "Hotel", flightDate |-> NoDate, checkIn |-> day]

MOCK_TREASURY == << [id |-> 1, balance |-> 500], [id |-> 2, balance |-> 0] >>

MOCK_CLIENTS ==
    << [id |-> 11, name |-> <<"a">>, balance |-> 100],
       [id |-> 12, name |-> <<"a", "b">>, balance |-> 0] >>

MOCK_AGENTS == << [id |-> 21, name |-> <<"g">>, balance |-> 300] >>

MOCK_BOOKINGS ==
    << [id |-> 31, clientName |-> <<"a">>, fileNo |-> <<"F", "1">>, date |-> Today + 2,
        destination |-> <<"P">>, type |-> "Tourism",
        amount |-> 100, paidAmount |-> 0, paymentStatus |-> "Unpaid",
        status |-> CONFIRMED, passengers |-> <<FALSE>>,
        services |-> << Flight(41, Today + 1) >>, payments |-> << >>,
        createdBy |-> "System"] >>

MOCK_USERS ==
    << [id |-> 61, username |-> "admin", password |-> "pw", name |-> "Admin",
        isActive |-> TRUE],
       [id |-> 62, username |-> "old", password |-> "pw", name |-> "Old",
        isActive |-> FALSE] >>

MOCK_TRANSACTIONS ==
    << [id |-> 51, description |-> <<"rent">>, amount |-> 30, date |-> Today,
        type |-> EXPENSE, category |-> CAT_OTHER, referenceNo |-> NoText,
        treasuryId |-> NoId, createdBy |-> "System"] >>

-----------------------------------------------------------------------------
(* Balance helpers. `snap` is the array the handler's closure holds, `cur` the
   array the queued state updater receives. *)

\* updateTreasuryBalance, lines 488-494, INCOME and EXPENSE exchanged
UpdateTreasuryBalance_Swapped(snap, cur, treasuryId, amountJOD, type) ==
    LET i == FindIndex(snap, LAMBDA tr : tr.id = treasuryId)
        newBalance == IF type = INCOME THEN snap[i].balance - amountJOD
                      ELSE snap[i].balance + amountJOD
    IN  IF i = 0 THEN cur
        ELSE MapSeq(cur, LAMBDA tr : IF tr.id = treasuryId
                                     THEN [tr EXCEPT !.balance = newBalance] ELSE tr)

\* updateTreasuryBalance, lines 488-494
UpdateTreasuryBalance(snap, cur, treasuryId, amountJOD, type) ==
    LET i == FindIndex(snap, LAMBDA tr : tr.id = treasuryId)
        newBalance == IF type = INCOME THEN snap[i].balance + amountJOD
                      ELSE snap[i].balance - amountJOD
    IN  IF i = 0 THEN cur
        ELSE MapSeq(cur, LAMBDA tr : IF tr.id = treasuryId
                                     THEN [tr EXCEPT !.balance = newBalance] ELSE tr)

\* updateClient(id, data), lines 694-697, and updateAgent, 665-668
UpdateParty(cur, id, data) == MapSeq(cur, LAMBDA c : IF c.id = id THEN Merge(c, data) ELSE c)

\* A reversal that keeps the type
ReverseType_Same(type) == type

\* type === INCOME ? EXPENSE : INCOME, lines 626 and 647
ReverseType(type) == IF type = INCOME THEN EXPENSE ELSE INCOME

\* An audit log entry, lines 426-433
AuditLog(action, entityType, now, user) ==
    [id |-> IdText("LOG-", now), action |-> action, entityType |-> entityType,
     performedBy |-> IF user = << >> THEN "System" ELSE user[1].username]

\* The tables addAuditLog asks the supabase client for, lines 436-440
AuditLogCalls(calls) == IF ~DEMO_MODE THEN calls \cup {"audit_logs"} ELSE calls

-----------------------------------------------------------------------------
(* Inputs of the store operations *)

\* An id that no record carries
UnknownId == 99
Amounts == {60}

BookingInputs ==
    { [clientName |-> <<"a">>, fileNo |-> <<"F", "2">>, date |-> Today,
       destination |-> <<"P">>, type |-> "Tourism",
       amount |-> 100, paidAmount |-> 0, paymentStatus |-> "Unpaid",
       status |-> CONFIRMED, passengers |-> <<TRUE>>,
       services |-> << Hotel(42, Today + 1) >>, payments |-> << >>],
      [clientName |-> <<"c">>, fileNo |-> NoText, date |-> Today + 5,
       destination |-> <<"p", "a">>, type |-> "Umrah",
       amount |-> 61, paidAmount |-> 20, paymentStatus |-> "Partial",
       status |-> PENDING, passengers |-> << >>,
       services |-> << >>, payments |-> << >>] }

BookingUpdates == { [amount |-> 150] }

BookingIds == {allBookings[i].id : i \in 1..Len(allBookings)}
TransactionIds == {allTransactions[i].id : i \in 1..Len(allTransactions)}
ClientIds == {clients[i].id : i \in 1..Len(clients)} \cup {UnknownId}
AgentIds == {agents[i].id : i \in 1..Len(agents)} \cup {UnknownId}
TreasuryIds == {treasury[i].id : i \in 1..Len(treasury)}

\* The payment the booking list's dialog builds (BookingsList.tsx, lines 118-131)
PaymentInputs ==
    { [id |-> clock, finalAmount |-> a, date |-> Today, treasuryId |-> t] :
        a \in Amounts, t \in {1, NoId} }

TransactionInputs ==
    { [description |-> <<"misc">>, amount |-> 30, date |-> Today, type |-> INCOME,
       category |-> CAT_OTHER, referenceNo |-> NoText, treasuryId |-> 1],
      [description |-> <<"misc">>, amount |-> 30, date |-> Today, type |-> EXPENSE,
       category |-> CAT_OTHER, referenceNo |-> NoText, treasuryId |-> 2],
      [description |-> <<"from", "a">>, amount |-> 30, date |-> Today, type |-> INCOME,
       category |-> CAT_CLIENT_RECEIPTS, referenceNo |-> NoText, treasuryId |-> NoId] }

AlertSettingsOf(fin, finDays, pp, flight, flightDays, hotel, hotelDays) ==
    [alertSettings |->
        [enableFinancialAlerts |-> fin, financialAlertDays |-> finDays,
         enablePassportAlerts |-> pp, passportAlertDays |-> 7,
         enableFlightAlerts |-> flight, flightAlertDays |-> flightDays,
         enableHotelAlerts |-> hotel, hotelAlertDays |-> hotelDays]]

\* No type chosen in a filter
NoType == ""
\* The 'ALL' entry of the treasury filter
ALL_TREASURIES == -1
NoFilters == [dateFrom |-> NoDate, dateTo |-> NoDate, type |-> NoType]
\* The filter fields of the bookings list when it mounts, lines 10-15
NoListFilters == [search |-> NoText, filters |-> NoFilters]

\* fetchBookings as the bookings list calls it (BookingsList.tsx, lines 40-51)
FetchBookingsInputs ==
    { [page |-> 1, search |-> NoText, filters |-> NoFilters],
      [page |-> 1, search |-> <<"P">>,
       filters |-> [dateFrom |-> Today + 1, dateTo |-> Today + 5, type |-> "Tourism"]],
      [page |-> 2, search |-> NoText, filters |-> NoFilters] }

FetchTransactionsInputs ==
    { [page |-> 1, search |-> NoText, filters |-> [treasuryId |-> ALL_TREASURIES, type |-> NoType]],
      [page |-> 1, search |-> <<"A">>, filters |-> [treasuryId |-> 1, type |-> INCOME]] }

\* The names and passwords typed into the login form
LoginInputs == { <<"admin", "pw">>, <<"old", "pw">>, <<"admin", "x">> }

UserIds == {users[i].id : i \in 1..Len(users)}
\* The clients and treasuries the forms of their pages add
ClientInputs == { [name |-> <<"n">>, balance |-> 0] }
TreasuryInputs == { [balance |-> 0] }
\* Milliseconds between two calls made by one handler
Gaps == {0, 1}

\* What the users page can change of a user
UserUpdates == { [isActive |-> FALSE], [password |-> "x"], [name |-> "Manager"] }

\* Settings the form of the settings page can submit (part_000, lines 270-386)
SettingsInputs ==
    { DEFAULT_COMPANY_SETTINGS,
      AlertSettingsOf(FALSE, 3, TRUE, TRUE, 0, TRUE, 1) }

-----------------------------------------------------------------------------
(* The store *)

Snapshot ==
    [bookings |-> bookings, bookingsTotal |-> bookingsTotal, allBookings |-> allBookings,
     transactions |-> transactions, transactionsTotal |-> transactionsTotal,
     allTransactions |-> allTransactions, agents |-> agents, clients |-> clients,
     treasury |-> treasury, companySettings |-> companySettings,
     smartAlerts |-> smartAlerts, users |-> users, currentUser |-> currentUser,
     storedUser |-> storedUser]

EmptyStore ==
    [bookings |-> << >>, bookingsTotal |-> 0, allBookings |-> << >>,
     transactions |-> << >>, transactionsTotal |-> 0, allTransactions |-> << >>,
     agents |-> << >>, clients |-> << >>, treasury |-> << >>,
     companySettings |-> DEFAULT_COMPANY_SETTINGS, smartAlerts |-> << >>,
     users |-> MOCK_USERS, currentUser |-> << >>, storedUser |-> << >>]

\* The state after construction: the useState initialisers, lines 46-142, with an
\* empty localStorage.
Init ==
    /\ loaded = FALSE
    /\ users = MOCK_USERS
    /\ storedUser = << >>
    /\ bookingsPage = 1
    /\ transactionsPage = 1
    /\ supabaseCalls = {}
    /\ clock = Epoch
    /\ tzOffset \in TZOffsets
    /\ currentUser = << >>
    /\ bookings = << >>
    /\ bookingsTotal = 0
    /\ allBookings = << >>
    /\ transactions = << >>
    /\ transactionsTotal = 0
    /\ allTransactions = << >>
    /\ agents = << >>
    /\ clients = << >>
    /\ treasury = << >>
    /\ auditLogs = << >>
    /\ storedSettings = << >>
    /\ companySettings = InitialCompanySettings(storedSettings)
    /\ smartAlerts = << >>
    /\ notification = << >>
    /\ timers = {}
    /\ listFilters = NoListFilters
    /\ delayDebounceFn = << >>
    /\ lastOp = [op |-> "init"]
    /\ prevOp = [op |-> "init"]
    /\ prev = EmptyStore
    /\ prev2 = EmptyStore

\* A user event calls a store operation: the provider is mounted, and the next
\* event comes at least a millisecond later.
Event(op) ==
    /\ loaded
    /\ clock < Epoch + MaxOps
    /\ clock' = clock + 1
    /\ lastOp' = op
    /\ prev' = Snapshot
    /\ prevOp' = lastOp
    /\ prev2' = prev
    /\ UNCHANGED <<loaded, tzOffset, users>>

\* An operation that leaves the session and the pages alone
Called(op) ==
    /\ Event(op)
    /\ UNCHANGED <<currentUser, storedUser, bookingsPage, transactionsPage, listVars>>

\* The mount effect, lines 405-419: the saved user is read back, and in demo mode
\* loadMockData (lines 264-280) fills the store. Without demo mode fetchBookings(1)
\* and fetchTransactions(1) ask the supabase client, whose select() returns a
\* promise that has no order(): both calls reject and the store stays empty.
LoadMockData ==
    /\ ~loaded
    /\ loaded' = TRUE
    /\ currentUser' = IF storedUser # << >> THEN <<JSONParseUser(storedUser)>>
                      ELSE currentUser
    /\ IF DEMO_MODE
       THEN /\ bookings' = MOCK_BOOKINGS
            /\ transactions' = MOCK_TRANSACTIONS
            /\ allBookings' = MOCK_BOOKINGS
            /\ allTransactions' = MOCK_TRANSACTIONS
            /\ agents' = MOCK_AGENTS
            /\ clients' = MOCK_CLIENTS
            /\ treasury' = MOCK_TREASURY
            /\ users' = MOCK_USERS
            /\ bookingsTotal' = Len(MOCK_BOOKINGS)
            /\ transactionsTotal' = Len(MOCK_TRANSACTIONS)
            /\ smartAlerts' = GenerateSmartAlerts(MOCK_BOOKINGS, companySettings, Today,
                                                  tzOffset)
            /\ UNCHANGED <<bookingsPage, transactionsPage, supabaseCalls>>
       ELSE /\ bookingsPage' = 1
            /\ transactionsPage' = 1
            /\ supabaseCalls' = supabaseCalls \cup {"bookings", "transactions"}
            /\ UNCHANGED <<bookings, transactions, allBookings, allTransactions, agents,
                           clients, treasury, users, bookingsTotal, transactionsTotal,
                           smartAlerts>>
    /\ lastOp' = [op |-> "loadMockData"]
    /\ prev' = Snapshot
    /\ prevOp' = lastOp
    /\ prev2' = prev
    /\ UNCHANGED <<clock, tzOffset, storedUser, auditLogs, companySettings,
                   storedSettings, notification, timers, listVars>>

\* updateCompanySettings, lines 125-130
UpdateCompanySettings(settings) ==
    /\ Called([op |-> "updateCompanySettings", settings |-> settings])
    /\ companySettings' = settings
    /\ storedSettings' = JSONStringify(settings)
    /\ auditLogs' = <<AuditLog("UPDATE_SETTINGS", "System", clock, currentUser)>> \o auditLogs
    /\ supabaseCalls' = AuditLogCalls(supabaseCalls)
    /\ smartAlerts' = GenerateSmartAlerts(allBookings, settings, Today, tzOffset)
    /\ UNCHANGED <<bookings, bookingsTotal, allBookings, transactions, transactionsTotal,
                   allTransactions, agents, clients, treasury, notification, timers>>

\* The client whose name is the booking's, line 512 and 567: its index, or 0
ClientByName(snap, name) == FindIndex(snap, LAMBDA c : c.name = name)

\* newBooking, lines 497-504
NewBooking(bookingData, now, user) ==
    Merge(bookingData, [id |-> now, paidAmount |-> bookingData.paidAmount,
                        createdBy |-> UserName(user)])

\* The clients after addBooking, charging only what the booking still owes
ClientsAfterBooking_Outstanding(snap, cur, newBooking, now) ==
    LET i == ClientByName(snap, newBooking.clientName)
        owed == newBooking.amount - newBooking.paidAmount
    IN  IF i # 0
        THEN UpdateParty(cur, snap[i].id, [balance |-> snap[i].balance + owed])
        ELSE Append(cur, [id |-> now, name |-> newBooking.clientName, balance |-> owed])

\* The clients after addBooking, lines 511-523
ClientsAfterBooking(snap, cur, newBooking, now) ==
    LET i == ClientByName(snap, newBooking.clientName)
    IN  IF i # 0
        THEN UpdateParty(cur, snap[i].id, [balance |-> snap[i].balance + newBooking.amount])
        ELSE Append(cur, [id |-> now, name |-> newBooking.clientName,
                          balance |-> newBooking.amount])

\* addBooking, lines 496-529
AddBooking(bookingData) ==
    LET newBooking == NewBooking(bookingData, clock, currentUser)
    IN  /\ Called([op |-> "addBooking", id |-> clock, bookingData |-> bookingData])
        /\ bookings' = <<newBooking>> \o bookings
        /\ allBookings' = <<newBooking>> \o allBookings
        /\ bookingsTotal' = bookingsTotal + 1
        /\ clients' = ClientsAfterBooking(clients, clients, newBooking, clock)
        /\ auditLogs' = <<AuditLog("ADD_BOOKING", "Booking", clock, currentUser)>> \o auditLogs
        /\ supabaseCalls' = AuditLogCalls(supabaseCalls)
        /\ UNCHANGED <<transactions, transactionsTotal, allTransactions, agents, treasury,
                       companySettings, storedSettings, smartAlerts, notification, timers>>

\* prev.map(b => b.id === id ? { ...b, ...updatedData } : b), lines 532-533
UpdateBookingIn(cur, id, updatedData) ==
    MapSeq(cur, LAMBDA b : IF b.id = id THEN Merge(b, updatedData) ELSE b)

\* updateBooking, lines 531-536
UpdateBooking(id, updatedData) ==
    /\ Called([op |-> "updateBooking", id |-> id, updatedData |-> updatedData])
    /\ bookings' = UpdateBookingIn(bookings, id, updatedData)
    /\ allBookings' = UpdateBookingIn(allBookings, id, updatedData)
    /\ auditLogs' = <<AuditLog("UPDATE_BOOKING", "Booking", clock, currentUser)>> \o auditLogs
    /\ supabaseCalls' = AuditLogCalls(supabaseCalls)
    /\ UNCHANGED <<bookingsTotal, transactions, transactionsTotal, allTransactions, agents,
                   clients, treasury, companySettings, storedSettings, smartAlerts,
                   notification, timers>>

\* deleteBooking, lines 538-544
DeleteBooking(id) ==
    /\ Called([op |-> "deleteBooking", id |-> id])
    /\ bookings' = SelectSeq(bookings, LAMBDA b : b.id # id)
    /\ allBookings' = SelectSeq(allBookings, LAMBDA b : b.id # id)
    /\ bookingsTotal' = bookingsTotal - 1
    /\ auditLogs' = <<AuditLog("DELETE_BOOKING", "Booking", clock, currentUser)>> \o auditLogs
    /\ supabaseCalls' = AuditLogCalls(supabaseCalls)
    /\ UNCHANGED <<transactions, transactionsTotal, allTransactions, agents, clients,
                   treasury, companySettings, storedSettings, smartAlerts, notification,
                   timers>>

\* updateBookingStatus that leaves the page of the table as it is
UpdateBookingStatus_FullOnly(id, status) ==
    /\ Called([op |-> "updateBookingStatus", id |-> id, status |-> status])
    /\ allBookings' = UpdateBookingIn(allBookings, id, [status |-> status])
    /\ UNCHANGED <<bookings, bookingsTotal, transactions, transactionsTotal,
                   allTransactions, agents, clients, treasury, auditLogs, companySettings,
                   storedSettings, smartAlerts, notification, timers, supabaseCalls>>

\* updateBookingStatus, lines 546-550
UpdateBookingStatus(id, status) ==
    /\ Called([op |-> "updateBookingStatus", id |-> id, status |-> status])
    /\ bookings' = UpdateBookingIn(bookings, id, [status |-> status])
    /\ allBookings' = UpdateBookingIn(allBookings, id, [status |-> status])
    /\ UNCHANGED <<bookingsTotal, transactions, transactionsTotal, allTransactions, agents,
                   clients, treasury, auditLogs, companySettings, storedSettings,
                   smartAlerts, notification, timers, supabaseCalls>>

\* newTransaction, lines 588-593
NewTransaction(transactionData, now, user) ==
    Merge(transactionData, [id |-> now, createdBy |-> UserName(user)])

\* The treasuries after addTransaction(transactionData, updateTreasury), lines 599-601
TreasuryAfterTransaction(snap, cur, transactionData, updateTreasury) ==
    IF updateTreasury /\ transactionData.treasuryId # NoId
    THEN UpdateTreasuryBalance(snap, cur, transactionData.treasuryId,
                               transactionData.amount, transactionData.type)
    ELSE cur

\* addTransaction as the screens call it, lines 587-605 (updateTreasury defaults to true)
AddTransaction(transactionData) ==
    LET newTransaction == NewTransaction(transactionData, clock, currentUser)
    IN  /\ Called([op |-> "addTransaction", id |-> clock,
                   transactionData |-> transactionData])
        /\ transactions' = <<newTransaction>> \o transactions
        /\ allTransactions' = <<newTransaction>> \o allTransactions
        /\ transactionsTotal' = transactionsTotal + 1
        /\ treasury' = TreasuryAfterTransaction(treasury, treasury, transactionData, TRUE)
        /\ auditLogs' = <<AuditLog("ADD_TRANSACTION", "Transaction", clock, currentUser)>>
                        \o auditLogs
        /\ supabaseCalls' = AuditLogCalls(supabaseCalls)
        /\ UNCHANGED <<bookings, bookingsTotal, allBookings, agents, clients,
                       companySettings, storedSettings, smartAlerts, notification, timers>>

\* newTotalPaid that forgets the payments made before
NewTotalPaid_LastOnly(updatedPayments) ==
    updatedPayments[Len(updatedPayments)].finalAmount

\* newTotalPaid, line 558
NewTotalPaid(updatedPayments) ==
    SumSeq([i \in 1..Len(updatedPayments) |-> updatedPayments[i].finalAmount])

\* newStatus that asks for the whole amount
NewPaymentStatus_Strict(newTotalPaid, amount) ==
    IF newTotalPaid >= amount THEN "Paid"
    ELSE IF newTotalPaid > 0 THEN "Partial" ELSE "Unpaid"

\* newStatus, line 559
NewPaymentStatus(newTotalPaid, amount) ==
    IF newTotalPaid >= amount - Epsilon THEN "Paid"
    ELSE IF newTotalPaid > 0 THEN "Partial" ELSE "Unpaid"

\* The update addBookingPayment passes to updateBooking, lines 556-565
PaymentUpdate(booking, payment) ==
    LET updatedPayments == booking.payments \o <<payment>>
        newTotalPaid == NewTotalPaid(updatedPayments)
    IN  [paidAmount |-> newTotalPaid,
         paymentStatus |-> NewPaymentStatus(newTotalPaid, booking.amount),
         payments |-> updatedPayments]

\* The clients after addBookingPayment, lines 567-570
ClientsAfterPayment(snap, cur, booking, payment) ==
    LET i == ClientByName(snap, booking.clientName)
    IN  IF i # 0
        THEN UpdateParty(cur, snap[i].id, [balance |-> snap[i].balance - payment.finalAmount])
        ELSE cur

\* The transaction addBookingPayment records, lines 576-584
PaymentTransaction(booking, payment) ==
    [description |-> <<"booking payment from: ">> \o booking.clientName \o <<" - file ">>
                     \o (IF booking.fileNo # NoText THEN booking.fileNo
                         ELSE IdText("B", booking.id)),
     amount |-> payment.finalAmount, date |-> payment.date, type |-> INCOME,
     category |-> CAT_BOOKING_RECEIPTS, referenceNo |-> IdText("P", payment.id),
     treasuryId |-> payment.treasuryId]

\* The updateTreasury argument of the addTransaction call in addBookingPayment, line 584
PaymentTransactionUpdatesTreasury == FALSE

\* The treasuries after addBookingPayment, lines 572-574 and 584
TreasuryAfterPayment(snap, cur, booking, payment) ==
    LET credited == IF payment.treasuryId # NoId
                    THEN UpdateTreasuryBalance(snap, cur, payment.treasuryId,
                                               payment.finalAmount, INCOME)
                    ELSE cur
    IN  TreasuryAfterTransaction(snap, credited, PaymentTransaction(booking, payment),
                                 PaymentTransactionUpdatesTreasury)

\* addBookingPayment, lines 552-585
AddBookingPayment(bookingId, payment) ==
    LET i == FindIndex(allBookings, LAMBDA b : b.id = bookingId)
        booking == allBookings[i]
        newTransaction == NewTransaction(PaymentTransaction(booking, payment), clock,
                                         currentUser)
    IN  /\ Called([op |-> "addBookingPayment", bookingId |-> bookingId,
                   payment |-> payment, found |-> i # 0])
        /\ IF i = 0
           THEN UNCHANGED <<bookings, allBookings, clients, treasury, transactions,
                            allTransactions, transactionsTotal, auditLogs, supabaseCalls>>
           ELSE /\ bookings' = UpdateBookingIn(bookings, bookingId,
                                               PaymentUpdate(booking, payment))
                /\ allBookings' = UpdateBookingIn(allBookings, bookingId,
                                                  PaymentUpdate(booking, payment))
                /\ clients' = ClientsAfterPayment(clients, clients, booking, payment)
                /\ treasury' = TreasuryAfterPayment(treasury, treasury, booking, payment)
                /\ transactions' = <<newTransaction>> \o transactions
                /\ allTransactions' = <<newTransaction>> \o allTransactions
                /\ transactionsTotal' = transactionsTotal + 1
                /\ auditLogs' =
                     << AuditLog("ADD_TRANSACTION", "Transaction", clock, currentUser),
                        AuditLog("UPDATE_BOOKING", "Booking", clock, currentUser) >>
                     \o auditLogs
                /\ supabaseCalls' = AuditLogCalls(AuditLogCalls(supabaseCalls))
        /\ UNCHANGED <<bookingsTotal, agents, companySettings, storedSettings,
                       smartAlerts, notification, timers>>

\* The party deleteTransaction gives the amount back to, lines 618 and 622:
\* the first whose name the description includes. Its index, or 0.
PartyInDescription(snap, description) ==
    FindIndex(snap, LAMBDA c : Includes(description, c.name))

\* The clients after deleteTransaction, lines 617-620
ClientsAfterDelete(snap, cur, trans) ==
    LET i == PartyInDescription(snap, trans.description)
    IN  IF /\ trans.category \in {CAT_CLIENT_RECEIPTS, CAT_BOOKING_RECEIPTS}
           /\ trans.type = INCOME
           /\ i # 0
        THEN UpdateParty(cur, snap[i].id, [balance |-> snap[i].balance + trans.amount])
        ELSE cur

\* The agents after deleteTransaction, lines 621-624
AgentsAfterDelete(snap, cur, trans) ==
    LET i == PartyInDescription(snap, trans.description)
    IN  IF trans.category = CAT_SUPPLIER_PAYMENTS /\ trans.type = EXPENSE /\ i # 0
        THEN UpdateParty(cur, snap[i].id, [balance |-> snap[i].balance + trans.amount])
        ELSE cur

\* The treasuries after deleteTransaction, lines 625-628
TreasuryAfterDelete(snap, cur, trans) ==
    IF trans.treasuryId # NoId
    THEN UpdateTreasuryBalance(snap, cur, trans.treasuryId, trans.amount,
                               ReverseType(trans.type))
    ELSE cur

\* deleteTransaction, lines 613-636
DeleteTransaction(id) ==
    LET i == FindIndex(allTransactions, LAMBDA t : t.id = id)
        trans == allTransactions[i]
    IN  /\ Called([op |-> "deleteTransaction", id |-> id, found |-> i # 0])
        /\ IF i # 0
           THEN /\ clients' = ClientsAfterDelete(clients, clients, trans)
                /\ agents' = AgentsAfterDelete(agents, agents, trans)
                /\ treasury' = TreasuryAfterDelete(treasury, treasury, trans)
           ELSE UNCHANGED <<clients, agents, treasury>>
        /\ transactions' = SelectSeq(transactions, LAMBDA t : t.id # id)
        /\ allTransactions' = SelectSeq(allTransactions, LAMBDA t : t.id # id)
        /\ transactionsTotal' = transactionsTotal - 1
        /\ UNCHANGED <<bookings, bookingsTotal, allBookings, auditLogs, companySettings,
                       storedSettings, smartAlerts, notification, timers, supabaseCalls>>

\* showNotification, lines 144-150: the notification and its pending timer
Notify(message, type) ==
    /\ notification' = << [id |-> clock, message |-> message, type |-> type] >>
    /\ timers' = timers \cup {[id |-> clock, message |-> message, type |-> type]}

\* handleSubmit of the settings page, part_000 lines 64-74. localStorage.setItem
\* (line 127) throws when the quota is exceeded: setCompanySettings (line 126) has
\* been called by then, the audit log and the alerts (lines 128-129) have not, and
\* the catch block shows the error instead of navigating.
HandleSubmit(formData, quotaExceeded) ==
    /\ Called([op |-> "handleSubmit", id |-> clock, formData |-> formData,
               failed |-> quotaExceeded, navigated |-> ~quotaExceeded])
    /\ companySettings' = formData
    /\ IF quotaExceeded
       THEN /\ Notify("save failed", "error")
            /\ UNCHANGED <<storedSettings, auditLogs, supabaseCalls, smartAlerts>>
       ELSE /\ storedSettings' = JSONStringify(formData)
            /\ auditLogs' = <<AuditLog("UPDATE_SETTINGS", "System", clock, currentUser)>>
                            \o auditLogs
            /\ supabaseCalls' = AuditLogCalls(supabaseCalls)
            /\ smartAlerts' = GenerateSmartAlerts(allBookings, formData, Today, tzOffset)
            /\ Notify("settings saved", "success")
    /\ UNCHANGED <<bookings, bookingsTotal, allBookings, transactions, transactionsTotal,
                   allTransactions, agents, clients, treasury>>

\* A screen calls showNotification, lines 144-150. No time need pass between two
\* calls; MaxPendingTimers bounds the calls whose timeout is still pending.
ShowNotification(message, type) ==
    /\ loaded
    /\ Cardinality(timers) < MaxPendingTimers
    /\ Notify(message, type)
    /\ lastOp' = [op |-> "showNotification", id |-> clock, message |-> message,
                  type |-> type]
    /\ prev' = Snapshot
    /\ prevOp' = lastOp
    /\ prev2' = prev
    /\ UNCHANGED <<loaded, users, storedUser, bookingsPage, transactionsPage,
                   supabaseCalls, clock, tzOffset, currentUser, bookings, bookingsTotal,
                   allBookings, transactions, transactionsTotal, allTransactions, agents,
                   clients, treasury, auditLogs, companySettings, storedSettings,
                   smartAlerts, listVars>>

\* A millisecond passes without an event
Tick ==
    /\ clock < Epoch + MaxOps
    /\ clock' = clock + 1
    /\ UNCHANGED <<loaded, users, storedUser, bookingsPage, transactionsPage,
                   supabaseCalls, tzOffset, currentUser, bookings, bookingsTotal,
                   allBookings, transactions, transactionsTotal, allTransactions, agents,
                   clients, treasury, auditLogs, companySettings, storedSettings,
                   smartAlerts, notification, timers, listVars, lastOp, prev, prevOp,
                   prev2>>

\* prev.map(t => t.id === transactionId ? { ...t, treasuryId: newTreasuryId } : t)
Repoint(cur, transactionId, newTreasuryId) ==
    MapSeq(cur, LAMBDA t : IF t.id = transactionId
                           THEN [t EXCEPT !.treasuryId = newTreasuryId] ELSE t)

\* transferTransaction, lines 638-657
TransferTransaction(transactionId, newTreasuryId) ==
    LET i == FindIndex(allTransactions, LAMBDA t : t.id = transactionId)
        transaction == allTransactions[i]
        returns == \/ i = 0
                   \/ transaction.treasuryId = NoId
                   \/ transaction.treasuryId = newTreasuryId
    IN  /\ Called([op |-> "transferTransaction", id |-> transactionId,
                   newTreasuryId |-> newTreasuryId, done |-> ~returns])
        /\ IF returns
           THEN UNCHANGED <<treasury, transactions, allTransactions, notification, timers>>
           ELSE /\ treasury' =
                     UpdateTreasuryBalance(treasury,
                         UpdateTreasuryBalance(treasury, treasury, transaction.treasuryId,
                                               transaction.amount,
                                               ReverseType(transaction.type)),
                         newTreasuryId, transaction.amount, transaction.type)
                /\ transactions' = Repoint(transactions, transactionId, newTreasuryId)
                /\ allTransactions' = Repoint(allTransactions, transactionId, newTreasuryId)
                /\ Notify("transferred", "success")
        /\ UNCHANGED <<bookings, bookingsTotal, allBookings, transactionsTotal, agents,
                       clients, auditLogs, companySettings, storedSettings, smartAlerts,
                       supabaseCalls>>

\* The timer of showNotification fires, line 148
TimerExpires(timer) ==
    /\ timer \in timers
    /\ timers' = timers \ {timer}
    /\ notification' = IF notification # << >> /\ notification[1].id = timer.id
                       THEN << >> ELSE notification
    /\ UNCHANGED <<loaded, users, storedUser, bookingsPage, transactionsPage,
                   supabaseCalls, clock, tzOffset, currentUser, bookings, bookingsTotal,
                   allBookings, transactions, transactionsTotal, allTransactions, agents,
                   clients, treasury, auditLogs, companySettings, storedSettings,
                   smartAlerts, listVars, lastOp, prev, prevOp, prev2>>

\* The transaction addAgentPayment records, lines 678-685
AgentPaymentTransaction(agent, amount, treasuryId) ==
    [description |-> <<"payment to supplier: ">> \o agent.name, amount |-> amount,
     date |-> Today, type |-> EXPENSE, category |-> CAT_SUPPLIER_PAYMENTS,
     referenceNo |-> NoText, treasuryId |-> treasuryId]

\* addAgentPayment, lines 673-687
AddAgentPayment(agentId, amount, treasuryId) ==
    LET i == FindIndex(agents, LAMBDA a : a.id = agentId)
        agent == agents[i]
        newTransaction == NewTransaction(AgentPaymentTransaction(agent, amount, treasuryId),
                                         clock, currentUser)
    IN  /\ Called([op |-> "addAgentPayment", agentId |-> agentId, amount |-> amount,
                   treasuryId |-> treasuryId, found |-> i # 0])
        /\ treasury' = UpdateTreasuryBalance(treasury, treasury, treasuryId, amount, EXPENSE)
        /\ IF i # 0
           THEN /\ agents' = UpdateParty(agents, agentId, [balance |-> agent.balance - amount])
                /\ transactions' = <<newTransaction>> \o transactions
                /\ allTransactions' = <<newTransaction>> \o allTransactions
                /\ transactionsTotal' = transactionsTotal + 1
                /\ auditLogs' =
                     <<AuditLog("ADD_TRANSACTION", "Transaction", clock, currentUser)>>
                     \o auditLogs
                /\ supabaseCalls' = AuditLogCalls(supabaseCalls)
           ELSE UNCHANGED <<agents, transactions, allTransactions, transactionsTotal,
                            auditLogs, supabaseCalls>>
        /\ UNCHANGED <<bookings, bookingsTotal, allBookings, clients, companySettings,
                       storedSettings, smartAlerts, notification, timers>>

\* The transaction addClientPayment records, lines 707-714
ClientPaymentTransaction(client, amount, treasuryId) ==
    [description |-> <<"receipt from client: ">> \o client.name, amount |-> amount,
     date |-> Today, type |-> INCOME, category |-> CAT_CLIENT_RECEIPTS,
     referenceNo |-> NoText, treasuryId |-> treasuryId]

\* addClientPayment, lines 702-716
AddClientPayment(clientId, amount, treasuryId) ==
    LET i == FindIndex(clients, LAMBDA c : c.id = clientId)
        client == clients[i]
        newTransaction == NewTransaction(ClientPaymentTransaction(client, amount, treasuryId),
                                         clock, currentUser)
    IN  /\ Called([op |-> "addClientPayment", clientId |-> clientId, amount |-> amount,
                   treasuryId |-> treasuryId, found |-> i # 0])
        /\ treasury' = UpdateTreasuryBalance(treasury, treasury, treasuryId, amount, INCOME)
        /\ IF i # 0
           THEN /\ clients' = UpdateParty(clients, clientId,
                                          [balance |-> client.balance - amount])
                /\ transactions' = <<newTransaction>> \o transactions
                /\ allTransactions' = <<newTransaction>> \o allTransactions
                /\ transactionsTotal' = transactionsTotal + 1
                /\ auditLogs' =
                     <<AuditLog("ADD_TRANSACTION", "Transaction", clock, currentUser)>>
                     \o auditLogs
                /\ supabaseCalls' = AuditLogCalls(supabaseCalls)
           ELSE UNCHANGED <<clients, transactions, allTransactions, transactionsTotal,
                            auditLogs, supabaseCalls>>
        /\ UNCHANGED <<bookings, bookingsTotal, allBookings, agents, companySettings,
                       storedSettings, smartAlerts, notification, timers>>

\* The bookings fetchBookings keeps in demo mode, lines 289-300
FilteredBookings(all, search, filters) ==
    LET s == ToLowerCase(search)
        bySearch == IF search # NoText
                    THEN SelectSeq(all, LAMBDA b :
                            \/ Includes(ToLowerCase(b.clientName), s)
                            \/ (b.fileNo # NoText /\ Includes(ToLowerCase(b.fileNo), s))
                            \/ Includes(ToLowerCase(b.destination), s))
                    ELSE all
        byFrom == IF filters.dateFrom # NoDate
                  THEN SelectSeq(bySearch, LAMBDA b : b.date >= filters.dateFrom)
                  ELSE bySearch
        byTo == IF filters.dateTo # NoDate
                THEN SelectSeq(byFrom, LAMBDA b : b.date <= filters.dateTo)
                ELSE byFrom
    IN  IF filters.type # NoType
        THEN SelectSeq(byTo, LAMBDA b : b.type = filters.type)
        ELSE byTo

\* A page that always starts at the first record
PageOf_FromStart(filtered, page) == Slice(filtered, 0, PAGE_SIZE)

\* filtered.slice(from, from + PAGE_SIZE), lines 303-304 and 361-362
PageOf(filtered, page) == Slice(filtered, (page - 1) * PAGE_SIZE, (page - 1) * PAGE_SIZE + PAGE_SIZE)

\* fetchBookings, lines 285-341, called by the page buttons or by the filter
\* effect of the bookings list. Without demo mode the query is built on the
\* supabase client and rejects, so only the page number changes.
FetchBookingsFrom(caller, page, search, filters) ==
    LET filtered == FilteredBookings(allBookings, search, filters)
    IN  /\ Event([op |-> "fetchBookings", by |-> caller, page |-> page,
                  search |-> search, filters |-> filters])
        /\ bookingsPage' = page
        /\ IF DEMO_MODE
           THEN /\ bookingsTotal' = Len(filtered)
                /\ bookings' = PageOf(filtered, page)
                /\ UNCHANGED supabaseCalls
           ELSE /\ supabaseCalls' = supabaseCalls \cup {"bookings"}
                /\ UNCHANGED <<bookings, bookingsTotal>>
        /\ UNCHANGED <<currentUser, storedUser, transactionsPage, allBookings, transactions,
                       transactionsTotal, allTransactions, agents, clients, treasury,
                       auditLogs, companySettings, storedSettings, smartAlerts,
                       notification, timers>>

\* fetchBookings called from handlePageChange, BookingsList.tsx lines 49-51
FetchBookings(page, search, filters) ==
    /\ FetchBookingsFrom("page", page, search, filters)
    /\ UNCHANGED listVars

\* A change of the filters that leaves a pending timeout as it is
ChangeFilters_KeepTimeout(values) ==
    /\ values # listFilters
    /\ clock + 1 < Epoch + MaxOps
    /\ Event([op |-> "changeFilters", values |-> values])
    /\ listFilters' = values
    /\ delayDebounceFn' = IF delayDebounceFn # << >> THEN delayDebounceFn ELSE <<values>>
    /\ UNCHANGED <<currentUser, storedUser, bookingsPage, transactionsPage, supabaseCalls,
                   bookings, bookingsTotal, allBookings, transactions, transactionsTotal,
                   allTransactions, agents, clients, treasury, auditLogs, companySettings,
                   storedSettings, smartAlerts, notification, timers>>

\* A filter field of the bookings list changes (lines 10-15): the list renders
\* again, the cleanup of the filter effect clears the pending timeout (line 46)
\* and the effect sets a new one that holds the new values (lines 42-44). The
\* bound on events leaves room for the timeout to fire.
ChangeFilters(values) ==
    /\ values # listFilters
    /\ clock + 1 < Epoch + MaxOps
    /\ Event([op |-> "changeFilters", values |-> values])
    /\ listFilters' = values
    /\ delayDebounceFn' = <<values>>
    /\ UNCHANGED <<currentUser, storedUser, bookingsPage, transactionsPage, supabaseCalls,
                   bookings, bookingsTotal, allBookings, transactions, transactionsTotal,
                   allTransactions, agents, clients, treasury, auditLogs, companySettings,
                   storedSettings, smartAlerts, notification, timers>>

\* The timeout of the filter effect fires after 500 ms, lines 42-44
DebounceElapses ==
    /\ delayDebounceFn # << >>
    /\ FetchBookingsFrom("debounce", 1, delayDebounceFn[1].search,
                         delayDebounceFn[1].filters)
    /\ delayDebounceFn' = << >>
    /\ UNCHANGED listFilters

\* handlePageChange, lines 49-51
HandlePageChange(newPage) ==
    /\ clock + 1 < Epoch + MaxOps \/ delayDebounceFn = << >>
    /\ FetchBookings(newPage, listFilters.search, listFilters.filters)

\* The transactions fetchTransactions keeps in demo mode, lines 347-358
FilteredTransactions(all, search, filters) ==
    LET s == ToLowerCase(search)
        bySearch == IF search # NoText
                    THEN SelectSeq(all, LAMBDA t :
                            \/ Includes(ToLowerCase(t.description), s)
                            \/ (t.referenceNo # NoText
                                    /\ Includes(ToLowerCase(t.referenceNo), s)))
                    ELSE all
        byTreasury == IF filters.treasuryId # NoId /\ filters.treasuryId # ALL_TREASURIES
                      THEN SelectSeq(bySearch, LAMBDA t : t.treasuryId = filters.treasuryId)
                      ELSE bySearch
    IN  IF filters.type # NoType
        THEN SelectSeq(byTreasury, LAMBDA t : t.type = filters.type)
        ELSE byTreasury

\* fetchTransactions, lines 343-402
FetchTransactions(page, search, filters) ==
    LET filtered == FilteredTransactions(allTransactions, search, filters)
    IN  /\ Event([op |-> "fetchTransactions", page |-> page, search |-> search,
                  filters |-> filters])
        /\ transactionsPage' = page
        /\ IF DEMO_MODE
           THEN /\ transactionsTotal' = Len(filtered)
                /\ transactions' = PageOf(filtered, page)
                /\ UNCHANGED supabaseCalls
           ELSE /\ supabaseCalls' = supabaseCalls \cup {"transactions"}
                /\ UNCHANGED <<transactions, transactionsTotal>>
        /\ UNCHANGED <<currentUser, storedUser, bookingsPage, bookings, bookingsTotal,
                       allBookings, allTransactions, agents, clients, treasury, auditLogs,
                       companySettings, storedSettings, smartAlerts, notification, timers,
                       listVars>>

\* A login that does not ask whether the user is active
Login_Inactive(username, password) ==
    LET i == FindIndex(users, LAMBDA u : u.username = username /\ u.password = password)
        found == DEMO_MODE /\ i # 0
    IN  /\ Event([op |-> "login", username |-> username, password |-> password,
                  result |-> found])
        /\ IF found
           THEN /\ currentUser' = <<users[i]>>
                /\ storedUser' = JSONStringifyUser(users[i])
           ELSE UNCHANGED <<currentUser, storedUser>>
        /\ UNCHANGED <<bookingsPage, transactionsPage, supabaseCalls, bookings,
                       bookingsTotal, allBookings, transactions, transactionsTotal,
                       allTransactions, agents, clients, treasury, auditLogs,
                       companySettings, storedSettings, smartAlerts, notification, timers,
                       listVars>>

\* login, lines 443-456
Login(username, password) ==
    LET i == FindIndex(users, LAMBDA u : /\ u.username = username
                                         /\ u.password = password
                                         /\ u.isActive)
        found == DEMO_MODE /\ i # 0
    IN  /\ Event([op |-> "login", username |-> username, password |-> password,
                  result |-> found])
        /\ IF found
           THEN /\ currentUser' = <<users[i]>>
                /\ storedUser' = JSONStringifyUser(users[i])
           ELSE UNCHANGED <<currentUser, storedUser>>
        /\ UNCHANGED <<bookingsPage, transactionsPage, supabaseCalls, bookings,
                       bookingsTotal, allBookings, transactions, transactionsTotal,
                       allTransactions, agents, clients, treasury, auditLogs,
                       companySettings, storedSettings, smartAlerts, notification, timers,
                       listVars>>

\* logout, lines 458-461
Logout ==
    /\ Event([op |-> "logout"])
    /\ currentUser' = << >>
    /\ storedUser' = << >>
    /\ UNCHANGED <<bookingsPage, transactionsPage, supabaseCalls, bookings, bookingsTotal,
                   allBookings, transactions, transactionsTotal, allTransactions, agents,
                   clients, treasury, auditLogs, companySettings, storedSettings,
                   smartAlerts, notification, timers, listVars>>

\* updateUser, lines 473-481
UpdateUser(id, data) ==
    /\ loaded
    /\ clock < Epoch + MaxOps
    /\ clock' = clock + 1
    /\ lastOp' = [op |-> "updateUser", id |-> id, data |-> data]
    /\ prev' = Snapshot
    /\ prevOp' = lastOp
    /\ prev2' = prev
    /\ users' = MapSeq(users, LAMBDA u : IF u.id = id THEN Merge(u, data) ELSE u)
    /\ IF currentUser # << >> /\ currentUser[1].id = id
       THEN /\ currentUser' = <<Merge(currentUser[1], data)>>
            /\ storedUser' = JSONStringifyUser(Merge(currentUser[1], data))
       ELSE UNCHANGED <<currentUser, storedUser>>
    /\ UNCHANGED <<loaded, tzOffset, bookingsPage, transactionsPage, supabaseCalls,
                   bookings, bookingsTotal, allBookings, transactions, transactionsTotal,
                   allTransactions, agents, clients, treasury, auditLogs, companySettings,
                   storedSettings, smartAlerts, notification, timers, listVars>>

\* The page is loaded again: the provider is constructed anew (lines 46-142) over
\* the localStorage the last session left, and nothing else of that session remains.
Reload ==
    /\ loaded
    /\ loaded' = FALSE
    /\ users' = MOCK_USERS
    /\ currentUser' = << >>
    /\ bookingsPage' = 1
    /\ transactionsPage' = 1
    /\ bookings' = << >>
    /\ bookingsTotal' = 0
    /\ allBookings' = << >>
    /\ transactions' = << >>
    /\ transactionsTotal' = 0
    /\ allTransactions' = << >>
    /\ agents' = << >>
    /\ clients' = << >>
    /\ treasury' = << >>
    /\ auditLogs' = << >>
    /\ companySettings' = InitialCompanySettings(storedSettings)
    /\ smartAlerts' = << >>
    /\ notification' = << >>
    /\ timers' = {}
    /\ lastOp' = [op |-> "reload"]
    /\ prevOp' = [op |-> "init"]
    /\ prev' = EmptyStore
    /\ prev2' = EmptyStore
    /\ listFilters' = NoListFilters
    /\ delayDebounceFn' = << >>
    /\ UNCHANGED <<clock, tzOffset, storedUser, storedSettings, supabaseCalls>>

\* stats, lines 817-824
Stats ==
    [totalSales |-> SumSeq([i \in 1..Len(allBookings) |-> allBookings[i].amount]),
     totalPaid |-> SumSeq([i \in 1..Len(allBookings) |-> allBookings[i].paidAmount]),
     totalPending |-> SumSeq([i \in 1..Len(allBookings) |->
                                 allBookings[i].amount - allBookings[i].paidAmount]),
     bookingsCount |-> bookingsTotal]

-----------------------------------------------------------------------------
(* One event handler calls a store operation twice: both calls run in the closure
   of the same render, so both read the arrays of that render (`snap`), while the
   queued state updaters run one after the other (`cur`). The second call reads
   Date.now() gap milliseconds after the first. *)

Batch(op, gap) ==
    /\ loaded
    /\ clock < Epoch + MaxOps
    /\ clock' = clock + gap + 1
    /\ lastOp' = op
    /\ prev' = Snapshot
    /\ prevOp' = lastOp
    /\ prev2' = prev
    /\ UNCHANGED <<loaded, tzOffset, users, currentUser, storedUser, bookingsPage,
                   transactionsPage, listVars, companySettings, storedSettings,
                   smartAlerts, notification, timers>>

\* addTransaction twice, lines 587-605
AddTransactionTwice(first, second, gap) ==
    LET t1 == NewTransaction(first, clock, currentUser)
        t2 == NewTransaction(second, clock + gap, currentUser)
    IN  /\ Batch([op |-> "addTransaction twice", first |-> first, second |-> second,
                  gap |-> gap], gap)
        /\ transactions' = <<t2, t1>> \o transactions
        /\ allTransactions' = <<t2, t1>> \o allTransactions
        /\ transactionsTotal' = transactionsTotal + 2
        /\ treasury' = TreasuryAfterTransaction(treasury,
                            TreasuryAfterTransaction(treasury, treasury, first, TRUE),
                            second, TRUE)
        /\ auditLogs' =
             << AuditLog("ADD_TRANSACTION", "Transaction", clock + gap, currentUser),
                AuditLog("ADD_TRANSACTION", "Transaction", clock, currentUser) >>
             \o auditLogs
        /\ supabaseCalls' = AuditLogCalls(AuditLogCalls(supabaseCalls))
        /\ UNCHANGED <<bookings, bookingsTotal, allBookings, agents, clients>>

\* addBooking twice, lines 496-529
AddBookingTwice(first, second, gap) ==
    LET b1 == NewBooking(first, clock, currentUser)
        b2 == NewBooking(second, clock + gap, currentUser)
    IN  /\ Batch([op |-> "addBooking twice", first |-> first, second |-> second,
                  gap |-> gap], gap)
        /\ bookings' = <<b2, b1>> \o bookings
        /\ allBookings' = <<b2, b1>> \o allBookings
        /\ bookingsTotal' = bookingsTotal + 2
        /\ clients' = ClientsAfterBooking(clients,
                          ClientsAfterBooking(clients, clients, b1, clock),
                          b2, clock + gap)
        /\ auditLogs' =
             << AuditLog("ADD_BOOKING", "Booking", clock + gap, currentUser),
                AuditLog("ADD_BOOKING", "Booking", clock, currentUser) >>
             \o auditLogs
        /\ supabaseCalls' = AuditLogCalls(AuditLogCalls(supabaseCalls))
        /\ UNCHANGED <<transactions, transactionsTotal, allTransactions, agents, treasury>>

\* addClient twice, lines 689-692
AddClientTwice(first, second, gap) ==
    /\ Batch([op |-> "addClient twice", first |-> first, second |-> second, gap |-> gap],
             gap)
    /\ clients' = clients \o << Merge(first, [id |-> clock]),
                                Merge(second, [id |-> clock + gap]) >>
    /\ UNCHANGED <<bookings, bookingsTotal, allBookings, transactions, transactionsTotal,
                   allTransactions, agents, treasury, auditLogs, supabaseCalls>>

\* addTreasury twice, lines 718-722
AddTreasuryTwice(first, second, gap) ==
    /\ Batch([op |-> "addTreasury twice", first |-> first, second |-> second,
              gap |-> gap], gap)
    /\ treasury' = treasury \o << Merge(first, [id |-> clock]),
                                  Merge(second, [id |-> clock + gap]) >>
    /\ UNCHANGED <<bookings, bookingsTotal, allBookings, transactions, transactionsTotal,
                   allTransactions, agents, clients, auditLogs, supabaseCalls>>

-----------------------------------------------------------------------------
(* The specification of the store *)

Next ==
    \/ LoadMockData
    \/ \E settings \in SettingsInputs : UpdateCompanySettings(settings)
    \/ \E bookingData \in BookingInputs : AddBooking(bookingData)
    \/ \E id \in BookingIds, updatedData \in BookingUpdates : UpdateBooking(id, updatedData)
    \/ \E id \in BookingIds \cup {UnknownId} : DeleteBooking(id)
    \/ \E id \in BookingIds, status \in {CANCELLED} : UpdateBookingStatus(id, status)
    \/ \E id \in BookingIds \cup {UnknownId}, payment \in PaymentInputs :
            AddBookingPayment(id, payment)
    \/ \E transactionData \in TransactionInputs : AddTransaction(transactionData)
    \/ \E id \in TransactionIds : DeleteTransaction(id)
    \/ \E id \in TransactionIds, t \in TreasuryIds \cup {UnknownId} :
            TransferTransaction(id, t)
    \/ \E id \in AgentIds, a \in Amounts, t \in {2} : AddAgentPayment(id, a, t)
    \/ \E id \in ClientIds, a \in Amounts, t \in {1} : AddClientPayment(id, a, t)
    \/ \E timer \in timers : TimerExpires(timer)
    \/ \E f \in FetchBookingsInputs : FetchBookings(f.page, f.search, f.filters)
    \/ \E f \in FetchTransactionsInputs : FetchTransactions(f.page, f.search, f.filters)
    \/ \E l \in LoginInputs : Login(l[1], l[2])
    \/ Logout
    \/ Reload

Spec == Init /\ [][Next]_vars

\* The client ledger alone: bookings, their payments, and deletion of transactions
NextClientLedger ==
    \/ LoadMockData
    \/ \E bookingData \in BookingInputs : AddBooking(bookingData)
    \/ \E id \in BookingIds \cup {UnknownId}, payment \in PaymentInputs :
            AddBookingPayment(id, payment)
    \/ \E id \in TransactionIds : DeleteTransaction(id)

SpecClientLedger == Init /\ [][NextClientLedger]_vars

-----------------------------------------------------------------------------
(* The alert generator on drawn inputs: the store holds a list of bookings, as
   addBooking and updateBooking can build it, and the settings form is saved. *)

\* A confirmed, unpaid booking leaving tomorrow, a passport missing, with
\* ManyServices flights and hotel stays that all start tomorrow
BigBooking(i) ==
    [id |-> i, clientName |-> <<"a">>, fileNo |-> NoText, date |-> Today + 1,
     destination |-> <<"P">>, type |-> "Tourism",
     amount |-> 100, paidAmount |-> 0, paymentStatus |-> "Unpaid", status |-> CONFIRMED,
     passengers |-> <<FALSE>>,
     services |-> [k \in 1..ManyServices |->
                     IF k % 2 = 1 THEN Flight(i * 100 + k, Today + 1)
                     ELSE Hotel(i * 100 + k, Today + 1)],
     payments |-> << >>, createdBy |-> "System"]

\* A pending, unpaid booking
PendingBooking(i) ==
    [id |-> i, clientName |-> <<"c">>, fileNo |-> NoText, date |-> Today + 3,
     destination |-> <<"P">>, type |-> "Tourism",
     amount |-> 50, paidAmount |-> 0, paymentStatus |-> "Unpaid", status |-> PENDING,
     passengers |-> <<FALSE>>, services |-> << Flight(i * 100 + 1, Today + 1) >>,
     payments |-> << >>, createdBy |-> "System"]

\* A cancelled booking with everything an alert looks for
CancelledBooking(i) ==
    [id |-> i, clientName |-> <<"c">>, fileNo |-> NoText, date |-> Today + 1,
     destination |-> <<"P">>, type |-> "Tourism",
     amount |-> 50, paidAmount |-> 0, paymentStatus |-> "Unpaid", status |-> CANCELLED,
     passengers |-> <<FALSE>>,
     services |-> << Flight(i * 100 + 1, Today + 1), Hotel(i * 100 + 2, Today + 1) >>,
     payments |-> << >>, createdBy |-> "System"]

\* A confirmed, paid booking with a flight and a check-in today and in two days
SameDayBooking(i) ==
    [id |-> i, clientName |-> <<"a", "b">>, fileNo |-> NoText, date |-> Today,
     destination |-> <<"P">>, type |-> "Tourism",
     amount |-> 100, paidAmount |-> 100, paymentStatus |-> "Paid", status |-> CONFIRMED,
     passengers |-> <<TRUE>>,
     services |-> << Flight(i * 100 + 1, Today), Hotel(i * 100 + 2, Today),
                     Flight(i * 100 + 3, Today + 2), Hotel(i * 100 + 4, Today + 2) >>,
     payments |-> << >>, createdBy |-> "System"]

AlertBookings(i) == {BigBooking(i), PendingBooking(i), CancelledBooking(i), SameDayBooking(i)}

AlertBookingLists ==
    UNION { {l \in [1..n -> UNION {AlertBookings(i) : i \in 1..n}] :
                \A i \in 1..n : l[i] \in AlertBookings(i)} : n \in 0..MaxAlertBookings }

\* What the settings form can submit: every switch, and day counts within the
\* ranges of its inputs (part_000, lines 283, 315, 347, 379)
AlertSettingsInputs ==
    { AlertSettingsOf(fin, finDays, pp, flight, days, hotel, days) :
        fin \in BOOLEAN, pp \in BOOLEAN, flight \in BOOLEAN, hotel \in BOOLEAN,
        finDays \in {1, 3}, days \in {0, 1, 2} }

InitAlerts ==
    /\ loaded = TRUE
    /\ users = MOCK_USERS
    /\ storedUser = << >>
    /\ bookingsPage = 1
    /\ transactionsPage = 1
    /\ supabaseCalls = {}
    /\ clock = Epoch + MaxOps - 1
    /\ tzOffset \in TZOffsets
    /\ currentUser = << >>
    /\ allBookings \in AlertBookingLists
    /\ bookings = allBookings
    /\ bookingsTotal = Len(allBookings)
    /\ transactions = MOCK_TRANSACTIONS
    /\ transactionsTotal = Len(MOCK_TRANSACTIONS)
    /\ allTransactions = MOCK_TRANSACTIONS
    /\ agents = MOCK_AGENTS
    /\ clients = MOCK_CLIENTS
    /\ treasury = MOCK_TREASURY
    /\ auditLogs = << >>
    /\ companySettings = DEFAULT_COMPANY_SETTINGS
    /\ storedSettings = << >>
    /\ smartAlerts = GenerateSmartAlerts(MOCK_BOOKINGS, DEFAULT_COMPANY_SETTINGS, Today,
                                         tzOffset)
    /\ notification = << >>
    /\ timers = {}
    /\ listFilters = NoListFilters
    /\ delayDebounceFn = << >>
    /\ lastOp = [op |-> "loadMockData"]
    /\ prevOp = [op |-> "init"]
    /\ prev = EmptyStore
    /\ prev2 = EmptyStore

NextAlerts == \E settings \in AlertSettingsInputs : UpdateCompanySettings(settings)

SpecAlerts == InitAlerts /\ [][NextAlerts]_vars

-----------------------------------------------------------------------------
(* The bookings list with more bookings than a page holds: the store holds n
   bookings, as n calls of addBooking leave them, and the list fetches pages. *)

\* The i-th booking of a long list: paid, confirmed, nothing to alert about
ListedBooking(i) ==
    [id |-> 100 + i,
     clientName |-> IF i % 14 = 0 THEN <<"c">>
                    ELSE IF i % 2 = 0 THEN <<"a">> ELSE <<"P", "a">>,
     fileNo |-> IF i % 5 = 0 THEN <<"F", "p">> ELSE NoText,
     date |-> Today + (i % 4),
     destination |-> IF i % 7 = 0 THEN <<"p", "b">> ELSE <<"d">>,
     type |-> IF i % 3 = 0 THEN "Umrah" ELSE "Tourism",
     amount |-> 100, paidAmount |-> 100, paymentStatus |-> "Paid", status |-> CONFIRMED,
     passengers |-> <<TRUE>>, services |-> << >>, payments |-> << >>,
     createdBy |-> "System"]

ListedBookings(n) == [i \in 1..n |-> ListedBooking(n + 1 - i)]

\* What the list asks for: the page buttons, the search box and the filter fields
\* (BookingsList.tsx, lines 40-51)
PageInputs ==
    { [page |-> p, search |-> s, filters |-> f] :
        p \in {1, 2},
        s \in {NoText, <<"p">>, <<"A">>},
        f \in {NoFilters,
               [dateFrom |-> Today + 1, dateTo |-> NoDate, type |-> NoType],
               [dateFrom |-> Today + 1, dateTo |-> Today + 2, type |-> "Tourism"]} }

InitPages ==
    /\ loaded = TRUE
    /\ users = MOCK_USERS
    /\ storedUser = << >>
    /\ bookingsPage = 1
    /\ transactionsPage = 1
    /\ supabaseCalls = {}
    /\ clock = Epoch + MaxOps - 2
    /\ tzOffset \in TZOffsets
    /\ currentUser = << >>
    /\ \E n \in 0..MaxListedBookings : allBookings = ListedBookings(n)
    /\ bookings = allBookings
    /\ bookingsTotal = Len(allBookings)
    /\ transactions = MOCK_TRANSACTIONS
    /\ transactionsTotal = Len(MOCK_TRANSACTIONS)
    /\ allTransactions = MOCK_TRANSACTIONS
    /\ agents = MOCK_AGENTS
    /\ clients = MOCK_CLIENTS
    /\ treasury = MOCK_TREASURY
    /\ auditLogs = << >>
    /\ companySettings = DEFAULT_COMPANY_SETTINGS
    /\ storedSettings = << >>
    /\ smartAlerts = << >>
    /\ notification = << >>
    /\ timers = {}
    /\ listFilters = NoListFilters
    /\ delayDebounceFn = << >>
    /\ lastOp = [op |-> "addBooking"]
    /\ prevOp = [op |-> "init"]
    /\ prev = EmptyStore
    /\ prev2 = EmptyStore

NextPages == \E f \in PageInputs : FetchBookings(f.page, f.search, f.filters)

SpecPages == InitPages /\ [][NextPages]_vars

-----------------------------------------------------------------------------
(* The mounted store: the state the mount effect leaves in demo mode over an
   empty localStorage, without the state of the bookings list. *)

MountedStore ==
    /\ loaded = TRUE
    /\ users = MOCK_USERS
    /\ storedUser = << >>
    /\ bookingsPage = 1
    /\ transactionsPage = 1
    /\ supabaseCalls = {}
    /\ clock = Epoch
    /\ tzOffset \in TZOffsets
    /\ currentUser = << >>
    /\ allBookings = MOCK_BOOKINGS
    /\ bookings = MOCK_BOOKINGS
    /\ bookingsTotal = Len(MOCK_BOOKINGS)
    /\ transactions = MOCK_TRANSACTIONS
    /\ transactionsTotal = Len(MOCK_TRANSACTIONS)
    /\ allTransactions = MOCK_TRANSACTIONS
    /\ agents = MOCK_AGENTS
    /\ clients = MOCK_CLIENTS
    /\ treasury = MOCK_TREASURY
    /\ auditLogs = << >>
    /\ storedSettings = << >>
    /\ companySettings = InitialCompanySettings(storedSettings)
    /\ smartAlerts = GenerateSmartAlerts(MOCK_BOOKINGS, companySettings, Today, tzOffset)
    /\ notification = << >>
    /\ timers = {}
    /\ lastOp = [op |-> "loadMockData"]
    /\ prevOp = [op |-> "init"]
    /\ prev = EmptyStore
    /\ prev2 = EmptyStore

\* The mounted store with the bookings list not on the screen
InitMounted ==
    /\ MountedStore
    /\ listFilters = NoListFilters
    /\ delayDebounceFn = << >>

-----------------------------------------------------------------------------
(* The bookings list and its filter effect: the list has just mounted, so the
   effect has run once and its timeout is pending with the initial values. *)

\* What the search box, the date fields and the type filter can hold
ListFilterInputs ==
    { [search |-> s, filters |-> f] :
        s \in {NoText, <<"P">>},
        f \in {NoFilters,
               [dateFrom |-> Today + 1, dateTo |-> Today + 5, type |-> "Tourism"]} }

InitDebounce ==
    /\ MountedStore
    /\ listFilters = NoListFilters
    /\ delayDebounceFn = <<NoListFilters>>

NextDebounce ==
    \/ \E values \in ListFilterInputs : ChangeFilters(values)
    \/ DebounceElapses
    \/ \E newPage \in {1, 2} : HandlePageChange(newPage)

SpecDebounce == InitDebounce /\ [][NextDebounce]_vars

\* setTimeout calls its callback once the delay is over
SpecDebounceFair == SpecDebounce /\ WF_vars(DebounceElapses)

-----------------------------------------------------------------------------
(* Notifications: the screens call showNotification, time passes, timeouts fire *)

\* The messages the screens show (BookingsList.tsx lines 114, 132; part_000 line 72)
NotificationInputs == { <<"saved", "success">>, <<"invalid", "error">> }

NextNotifications ==
    \/ \E n \in NotificationInputs : ShowNotification(n[1], n[2])
    \/ \E timer \in timers : TimerExpires(timer)
    \/ Tick

SpecNotifications == InitMounted /\ [][NextNotifications]_vars

-----------------------------------------------------------------------------
(* The settings page: the form is submitted, with the storage quota exceeded or not *)

NextSettingsForm ==
    \/ \E formData \in SettingsInputs, quotaExceeded \in BOOLEAN :
            HandleSubmit(formData, quotaExceeded)
    \/ \E timer \in timers : TimerExpires(timer)

SpecSettingsForm == InitMounted /\ [][NextSettingsForm]_vars

-----------------------------------------------------------------------------
(* The session: users log in and out, are edited, and the page is loaded again *)

NextSession ==
    \/ \E l \in LoginInputs : Login(l[1], l[2])
    \/ Logout
    \/ \E id \in UserIds, data \in UserUpdates : UpdateUser(id, data)
    \/ Reload
    \/ LoadMockData

SpecSession == InitMounted /\ [][NextSession]_vars

-----------------------------------------------------------------------------
(* Handlers that call an add operation twice, over the mounted store *)

NextBatch ==
    \/ \E first \in TransactionInputs, second \in TransactionInputs, gap \in Gaps :
            AddTransactionTwice(first, second, gap)
    \/ \E first \in BookingInputs, second \in BookingInputs, gap \in Gaps :
            AddBookingTwice(first, second, gap)
    \/ \E first \in ClientInputs, second \in ClientInputs, gap \in Gaps :
            AddClientTwice(first, second, gap)
    \/ \E first \in TreasuryInputs, second \in TreasuryInputs, gap \in Gaps :
            AddTreasuryTwice(first, second, gap)

SpecBatch == InitMounted /\ [][NextBatch]_vars

-----------------------------------------------------------------------------
(* Properties of the store *)

IdsOf(s) == {s[i].id : i \in 1..Len(s)}
Range(s) == {s[i] : i \in 1..Len(s)}

\* The record of s with the given id (ids are distinct within a collection)
ById(s, id) == s[FindIndex(s, LAMBDA r : r.id = id)]

Mutators == {"addBooking", "updateBooking", "deleteBooking", "updateBookingStatus",
             "addBookingPayment", "updateCompanySettings"}

\* C1: after every store mutation (addBooking, updateBooking, deleteBooking,
\* updateBookingStatus, addBookingPayment, updateCompanySettings) smartAlerts is
\* what the alert rules give for the current allBookings and alert settings.
C1_AlertsFollowEveryMutation ==
    lastOp.op \in Mutators =>
        smartAlerts = GenerateSmartAlerts(allBookings, companySettings, Today, tzOffset)

\* Income minus expense of the transactions created since the mount that are still
\* in allTransactions and carry the treasury's id
LedgerNet(treasuryId) ==
    SumSeq([i \in 1..Len(allTransactions) |->
              LET t == allTransactions[i]
              IN  IF t.id >= Epoch /\ t.treasuryId = treasuryId
                  THEN (IF t.type = INCOME THEN t.amount ELSE 0 - t.amount)
                  ELSE 0])

\* C2: every treasury's balance, less its balance at the start, is the income minus
\* the expense of the transactions created since that are still in allTransactions
\* and carry its id.
C2_TreasuryMatchesLedger ==
    loaded =>
        \A i \in 1..Len(treasury) :
            treasury[i].balance - MOCK_TREASURY[i].balance = LedgerNet(treasury[i].id)

\* C3: addBooking(b) puts b at the head of allBookings; if a client named
\* b.clientName exists, that client's balance grows by b.amount and no client is
\* created, otherwise one client named b.clientName with balance b.amount is
\* appended; no other client, no agent and no treasury changes.
C3_AddBookingClientLedger ==
    lastOp.op = "addBooking" =>
        LET b == lastOp.bookingData
            i == FindIndex(prev.clients, LAMBDA c : c.name = b.clientName)
        IN  /\ Len(allBookings) = Len(prev.allBookings) + 1
            /\ Tail(allBookings) = prev.allBookings
            /\ \A f \in DOMAIN b : Head(allBookings)[f] = b[f]
            /\ IF i # 0
               THEN /\ Len(clients) = Len(prev.clients)
                    /\ clients[i].balance = prev.clients[i].balance + b.amount
                    /\ \A j \in 1..Len(clients) : j # i => clients[j] = prev.clients[j]
               ELSE /\ Len(clients) = Len(prev.clients) + 1
                    /\ SubSeq(clients, 1, Len(prev.clients)) = prev.clients
                    /\ clients[Len(clients)].name = b.clientName
                    /\ clients[Len(clients)].balance = b.amount
            /\ agents = prev.agents
            /\ treasury = prev.treasury

\* C3 witness: a booking was added for a client that existed, and another state
\* in which the client had to be created is reached from the same inputs.
C3_Witness ==
    /\ lastOp.op = "addBooking"
    /\ \E i \in 1..Len(prev.clients) :
          /\ prev.clients[i].name = lastOp.bookingData.clientName
          /\ clients[i].balance > prev.clients[i].balance

\* C4: a booking that has received payments has paidAmount equal to the sum of
\* finalAmount over its payments list, and each addBookingPayment appends its
\* payment to the end of that list.
C4_PaidAmountIsSumOfPayments ==
    /\ \A i \in 1..Len(allBookings) :
          allBookings[i].payments # << >> =>
              allBookings[i].paidAmount =
                  SumSeq([k \in 1..Len(allBookings[i].payments) |->
                             allBookings[i].payments[k].finalAmount])
    /\ (lastOp.op = "addBookingPayment" /\ lastOp.found) =>
          ById(allBookings, lastOp.bookingId).payments =
              Append(ById(prev.allBookings, lastOp.bookingId).payments, lastOp.payment)

\* C4 witness: a second payment was added to a booking, after the first
C4_Witness ==
    /\ lastOp.op = "addBookingPayment" /\ lastOp.found
    /\ Len(ById(allBookings, lastOp.bookingId).payments) = 2
    /\ ById(allBookings, lastOp.bookingId).payments[2] = lastOp.payment
    /\ ById(allBookings, lastOp.bookingId).payments[1] # lastOp.payment

\* C5: addBookingPayment on an existing booking with payment p lowers the balance
\* of the client named booking.clientName by p.finalAmount, raises the balance of
\* treasury p.treasuryId by p.finalAmount once, changes no other client or
\* treasury, and adds one INCOME transaction with amount p.finalAmount,
\* referenceNo p.id and treasuryId p.treasuryId.
C5_PaymentPropagatedOnce ==
    (lastOp.op = "addBookingPayment" /\ lastOp.found) =>
        LET p == lastOp.payment
            booking == ById(prev.allBookings, lastOp.bookingId)
        IN  /\ Len(clients) = Len(prev.clients)
            /\ \A j \in 1..Len(clients) :
                  clients[j] =
                      IF j = FindIndex(prev.clients, LAMBDA c : c.name = booking.clientName)
                      THEN [prev.clients[j] EXCEPT !.balance = @ - p.finalAmount]
                      ELSE prev.clients[j]
            /\ Len(treasury) = Len(prev.treasury)
            /\ \A j \in 1..Len(treasury) :
                  treasury[j] =
                      IF prev.treasury[j].id = p.treasuryId
                      THEN [prev.treasury[j] EXCEPT !.balance = @ + p.finalAmount]
                      ELSE prev.treasury[j]
            /\ Len(allTransactions) = Len(prev.allTransactions) + 1
            /\ Tail(allTransactions) = prev.allTransactions
            /\ Head(allTransactions).type = INCOME
            /\ Head(allTransactions).amount = p.finalAmount
            /\ Head(allTransactions).referenceNo = IdText("P", p.id)
            /\ Head(allTransactions).treasuryId = p.treasuryId

\* C5 witness: a payment into an existing treasury for a booking of an existing client
C5_Witness ==
    /\ lastOp.op = "addBookingPayment" /\ lastOp.found
    /\ lastOp.payment.treasuryId \in IdsOf(prev.treasury)
    /\ \E j \in 1..Len(prev.clients) :
          prev.clients[j].name = ById(prev.allBookings, lastOp.bookingId).clientName
    /\ lastOp.payment.finalAmount > 0

\* C6: addTransaction(d) with d.treasuryId an existing treasury, followed by
\* deleteTransaction of the transaction it created, leaves every treasury balance
\* and allTransactions as they were before the add.
C6_AddThenDeleteRestores ==
    ( /\ lastOp.op = "deleteTransaction"
      /\ prevOp.op = "addTransaction"
      /\ lastOp.id = prevOp.id
      /\ prevOp.transactionData.treasuryId \in IdsOf(prev2.treasury) ) =>
        /\ treasury = prev2.treasury
        /\ allTransactions = prev2.allTransactions

\* C6 witness: the transaction just added to a treasury was deleted, and the add
\* had changed that treasury's balance
C6_Witness ==
    /\ lastOp.op = "deleteTransaction"
    /\ prevOp.op = "addTransaction"
    /\ lastOp.id = prevOp.id
    /\ prevOp.transactionData.treasuryId \in IdsOf(prev2.treasury)
    /\ prev.treasury # prev2.treasury

\* The outstanding total of the bookings that carry the client's name
Outstanding(name) ==
    SumSeq([i \in 1..Len(allBookings) |->
              IF allBookings[i].clientName = name
              THEN allBookings[i].amount - allBookings[i].paidAmount ELSE 0])

\* C7: a client of the demo data, whose balance at the start is the outstanding
\* total of the bookings in its name, keeps a balance equal to that total through
\* addBooking, addBookingPayment and deleteTransaction.
C7_ClientBalanceMatchesBookings ==
    loaded =>
        \A i \in 1..Len(MOCK_CLIENTS) :
            clients[i].balance = Outstanding(clients[i].name)

-----------------------------------------------------------------------------
(* Properties of the alert generator *)

\* The alerts have just been generated from allBookings and companySettings
Generated == lastOp.op = "updateCompanySettings"

\* Every alert the rules raise, before the sort and the cap
Raised(settings) == CollectAlerts(allBookings, AlertPrefs(settings), Today, tzOffset)

\* C8: after every generation smartAlerts holds at most 20 alerts, in the order
\* critical, warning, info, all of them raised by the rules, and no alert that
\* was raised and dropped has a strictly higher priority than one that was kept.
C8_AlertsPrioritizedAndCapped ==
    Generated =>
        /\ Len(smartAlerts) <= AlertCap
        /\ \A i, j \in 1..Len(smartAlerts) :
              i < j => Priority(smartAlerts[i].type) <= Priority(smartAlerts[j].type)
        /\ Range(smartAlerts) \subseteq Range(Raised(companySettings))
        /\ \A d \in Range(Raised(companySettings)) \ Range(smartAlerts) :
              \A k \in Range(smartAlerts) : Priority(d.type) >= Priority(k.type)

\* C8 witness: more than 20 alerts were raised, of all three priorities, and a
\* critical one was raised after the twentieth
C8_Witness ==
    /\ Generated
    /\ Len(Raised(companySettings)) > AlertCap
    /\ {smartAlerts[i].type : i \in 1..Len(smartAlerts)} = {"critical", "warning", "info"}
    /\ \E i \in (AlertCap + 1)..Len(Raised(companySettings)) :
          Raised(companySettings)[i].type = "critical"

Categories == {"financial", "passport", "flight", "hotel"}

\* The category of an alert, from the prefix of its id
CategoryOf(alert) ==
    CASE alert.id[1] \in {"fin-urgent", "fin"} -> "financial"
      [] alert.id[1] = "pp" -> "passport"
      [] alert.id[1] = "flight" -> "flight"
      [] OTHER -> "hotel"

FlagOf(category) ==
    CASE category = "financial" -> "enableFinancialAlerts"
      [] category = "passport" -> "enablePassportAlerts"
      [] category = "flight" -> "enableFlightAlerts"
      [] OTHER -> "enableHotelAlerts"

Enabled(settings, category) == settings.alertSettings[FlagOf(category)]

\* The settings with the switch of one category turned on
SwitchedOn(settings, category) ==
    [alertSettings |-> [settings.alertSettings EXCEPT ![FlagOf(category)] = TRUE]]

InCategory(alerts, category) == SelectSeq(alerts, LAMBDA a : CategoryOf(a) = category)
Others(alerts, category) == SelectSeq(alerts, LAMBDA a : CategoryOf(a) # category)

\* smartAlerts as it would be with the category's switch on
WithSwitchOn(category) ==
    GenerateSmartAlerts(allBookings, SwitchedOn(companySettings, category), Today, tzOffset)

IsPrefix(s, t) == Len(s) <= Len(t) /\ SubSeq(t, 1, Len(s)) = s

\* C9, as stated: with a category's switch off, smartAlerts holds no alert of that
\* category, and its alerts of the other categories are those it holds with the
\* switch on.
C9_SwitchLeavesOthersAlone ==
    Generated =>
        \A c \in Categories :
            ~Enabled(companySettings, c) =>
                /\ InCategory(smartAlerts, c) = << >>
                /\ Others(smartAlerts, c) = Others(WithSwitchOn(c), c)

\* C9, amended: with a category's switch off, smartAlerts holds no alert of that
\* category; its alerts of the other categories are those it holds with the
\* switch on whenever the rules raise at most 20 alerts with the switch on, and
\* otherwise begin with them.
C9_SwitchLeavesOthersAloneUnderCap ==
    Generated =>
        \A c \in Categories :
            ~Enabled(companySettings, c) =>
                /\ InCategory(smartAlerts, c) = << >>
                /\ IsPrefix(Others(WithSwitchOn(c), c), Others(smartAlerts, c))
                /\ Len(Raised(SwitchedOn(companySettings, c))) <= AlertCap =>
                      Others(smartAlerts, c) = Others(WithSwitchOn(c), c)

\* C9 witness: a switch is off, its category would have alerts with the switch
\* on, alerts of other categories are shown, and the cap is not reached
C9_Witness ==
    /\ Generated
    /\ \E c \in Categories :
          /\ ~Enabled(companySettings, c)
          /\ InCategory(WithSwitchOn(c), c) # << >>
          /\ Others(smartAlerts, c) # << >>
          /\ Len(Raised(SwitchedOn(companySettings, c))) <= AlertCap

\* The services of confirmed bookings, each with the reminder it may raise
ConfirmedServices ==
    UNION { {allBookings[i].services[k] : k \in 1..Len(allBookings[i].services)} :
              i \in {j \in 1..Len(allBookings) : allBookings[j].status = CONFIRMED} }

HasAlert(kind, entity) == \E a \in Range(smartAlerts) : a.id = <<kind, entity>>

\* C10 (for a browser east of or at UTC, and no alert lost to the cap): with
\* flight (hotel) alerts on, a flight (check-in) reminder is shown for a service of
\* a confirmed booking exactly when its flight date (check-in date) is today plus
\* the configured flightAlertDays (hotelAlertDays), for every value 0..7.
C10_RemindersOnConfiguredDay ==
    (Generated /\ tzOffset >= 0 /\ Len(Raised(companySettings)) <= AlertCap) =>
        \A s \in ConfirmedServices :
            /\ (s.type = "Flight" /\ s.flightDate # NoDate
                    /\ companySettings.alertSettings.enableFlightAlerts) =>
                  (HasAlert("flight", s.id) <=>
                      s.flightDate = Today + companySettings.alertSettings.flightAlertDays)
            /\ (s.type = "Hotel" /\ s.checkIn # NoDate
                    /\ companySettings.alertSettings.enableHotelAlerts) =>
                  (HasAlert("hotel", s.id) <=>
                      s.checkIn = Today + companySettings.alertSettings.hotelAlertDays)

-----------------------------------------------------------------------------
(* Properties of the session: demo mode, settings, pages *)

\* C11: in demo mode no store operation asks the supabase client for anything:
\* the set of tables asked for stays empty in every reachable state.
C11_DemoModeIsLocal == supabaseCalls = {}

\* C11 witness: a user has logged in, a mutator has written an audit log, and
\* fetchBookings has just run
C11_Witness ==
    /\ lastOp.op = "fetchBookings"
    /\ currentUser # << >>
    /\ auditLogs # << >>

\* C12: after updateCompanySettings(s) the in-memory companySettings is s, and in
\* every state the settings a newly constructed provider reads from storage are
\* the in-memory companySettings (so the last save wins, across reloads too).
C12_SettingsRoundTrip ==
    /\ lastOp.op = "updateCompanySettings" => companySettings = lastOp.settings
    /\ InitialCompanySettings(storedSettings) = companySettings

\* C12 witness: the page was loaded again after settings other than the defaults
\* had been saved, and the new provider holds them
C12_Witness ==
    /\ lastOp.op = "reload"
    /\ companySettings # DEFAULT_COMPANY_SETTINGS

-----------------------------------------------------------------------------
(* Properties of the alert rules *)

\* The financial alerts the rules raise for a booking, before the sort and the cap
FinancialRaised(booking) ==
    SelectSeq(Raised(companySettings),
              LAMBDA a : CategoryOf(a) = "financial" /\ a.id[2] = booking.id)

Remaining(booking) == booking.amount - booking.paidAmount

\* The booking is due: confirmed, unpaid, and travelling from today up to the
\* configured number of days ahead
IsUrgent(booking) ==
    /\ booking.status = CONFIRMED
    /\ booking.date >= Today
    /\ booking.date <= Today + companySettings.alertSettings.financialAlertDays
    /\ Remaining(booking) > Epsilon

\* The booking has a balance outstanding and has not travelled yet
IsOutstanding(booking) ==
    /\ Remaining(booking) > Epsilon
    /\ booking.status \notin {CANCELLED, VOIDED}
    /\ booking.date >= Today

\* C14: with financial alerts on, a booking raises at most one financial alert:
\* the critical one exactly when it is confirmed, unpaid and travels between today
\* and today + financialAlertDays; otherwise the warning exactly when it is
\* unpaid, neither cancelled nor voided and travels today or later; else none.
C14_FinancialAlertRule ==
    (Generated /\ companySettings.alertSettings.enableFinancialAlerts) =>
        \A i \in 1..Len(allBookings) :
            LET b == allBookings[i]
                f == FinancialRaised(b)
            IN  /\ Len(f) <= 1
                /\ IsUrgent(b) => (Len(f) = 1 /\ f[1].type = "critical")
                /\ (~IsUrgent(b) /\ IsOutstanding(b)) => (Len(f) = 1 /\ f[1].type = "warning")
                /\ (~IsUrgent(b) /\ ~IsOutstanding(b)) => f = << >>

\* The alert is about the booking: it carries the booking's id, or the id of one
\* of its services
IsAlertOf(alert, booking) ==
    \/ alert.id[1] \in {"fin-urgent", "fin", "pp"} /\ alert.id[2] = booking.id
    \/ /\ alert.id[1] \in {"flight", "hotel"}
       /\ \E k \in 1..Len(booking.services) : alert.id[2] = booking.services[k].id

\* smartAlerts holds no alert about a cancelled or voided booking of allBookings
NoAlertsOfCancelled ==
    \A b \in Range(allBookings) :
        b.status \in {CANCELLED, VOIDED} =>
            \A a \in Range(smartAlerts) : ~IsAlertOf(a, b)

\* C15: a generation (at mount, or when the settings are saved) puts no alert about
\* a cancelled or voided booking into smartAlerts, and after updateBookingStatus
\* has set a booking to CANCELLED or VOIDED smartAlerts holds no alert about it.
C15_CancelledBookingsRaiseNoAlerts ==
    /\ lastOp.op \in {"loadMockData", "updateCompanySettings"} => NoAlertsOfCancelled
    /\ (lastOp.op = "updateBookingStatus" /\ lastOp.status \in {CANCELLED, VOIDED}) =>
          \A b \in Range(allBookings) :
              b.id = lastOp.id => \A a \in Range(smartAlerts) : ~IsAlertOf(a, b)

-----------------------------------------------------------------------------
(* Properties of the ledgers *)

\* What a transaction adds to the balance of its treasury
Signed(t) == IF t.type = INCOME THEN t.amount ELSE 0 - t.amount

TotalBalance(accounts) == SumSeq([i \in 1..Len(accounts) |-> accounts[i].balance])

\* C16: transferTransaction of a transaction that has a treasury, to a
\* newTreasuryId other than it, takes the transaction's effect off the old
\* treasury, puts it on the new one, changes no other treasury, sets the
\* transaction's treasuryId to newTreasuryId in allTransactions and in
\* transactions, and leaves the sum of all treasury balances as it was.
C16_TransferConservesMoney ==
    (lastOp.op = "transferTransaction" /\ lastOp.done) =>
        LET t == ById(prev.allTransactions, lastOp.id)
        IN  /\ Len(treasury) = Len(prev.treasury)
            /\ \A j \in 1..Len(treasury) :
                  treasury[j].balance =
                      prev.treasury[j].balance
                      + (IF treasury[j].id = t.treasuryId THEN 0 - Signed(t)
                         ELSE IF treasury[j].id = lastOp.newTreasuryId THEN Signed(t)
                         ELSE 0)
            /\ ById(allTransactions, lastOp.id).treasuryId = lastOp.newTreasuryId
            /\ \A i \in 1..Len(transactions) :
                  transactions[i].id = lastOp.id =>
                      transactions[i].treasuryId = lastOp.newTreasuryId
            /\ TotalBalance(treasury) = TotalBalance(prev.treasury)

\* The payment operation before the last one recorded a transaction, and the last
\* operation deleted that transaction
DeletedPaymentOf(op) ==
    /\ lastOp.op = "deleteTransaction"
    /\ prevOp.op = op
    /\ prevOp.found
    /\ Len(prev.allTransactions) = Len(prev2.allTransactions) + 1
    /\ lastOp.id = Head(prev.allTransactions).id

\* The accounts as they were, with amount added to the balance of the one at index i
\* (none when i is 0)
WithReturned(accounts, i, amount) ==
    [j \in 1..Len(accounts) |->
        IF j = i THEN [accounts[j] EXCEPT !.balance = @ + amount] ELSE accounts[j]]

\* C17: deleting the transaction that addClientPayment recorded for client C, or
\* addBookingPayment for the client C named on the booking, adds its amount back
\* to the balance of C and changes no other client and no agent; deleting the one
\* addAgentPayment recorded for agent A adds it back to A and changes no other
\* agent and no client.
C17_ReversalHitsTheRightParty ==
    /\ DeletedPaymentOf("addClientPayment") =>
          /\ clients = WithReturned(prev.clients,
                                    FindIndex(prev.clients, LAMBDA c : c.id = prevOp.clientId),
                                    prevOp.amount)
          /\ agents = prev.agents
    /\ DeletedPaymentOf("addBookingPayment") =>
          /\ clients = WithReturned(prev.clients,
                                    ClientByName(prev.clients,
                                        ById(prev.allBookings, prevOp.bookingId).clientName),
                                    prevOp.payment.finalAmount)
          /\ agents = prev.agents
    /\ DeletedPaymentOf("addAgentPayment") =>
          /\ agents = WithReturned(prev.agents,
                                   FindIndex(prev.agents, LAMBDA a : a.id = prevOp.agentId),
                                   prevOp.amount)
          /\ clients = prev.clients

\* C18: addClientPayment (addAgentPayment) for an existing client (agent) into an
\* existing treasury, followed by deleteTransaction of the transaction it recorded,
\* leaves the clients, the agents, the treasuries and allTransactions as they were
\* before the payment.
C18_PartyPaymentRoundTrip ==
    ( /\ \/ DeletedPaymentOf("addClientPayment")
         \/ DeletedPaymentOf("addAgentPayment")
      /\ prevOp.treasuryId \in IdsOf(prev2.treasury) ) =>
        /\ clients = prev2.clients
        /\ agents = prev2.agents
        /\ treasury = prev2.treasury
        /\ allTransactions = prev2.allTransactions

\* C19: addBookingPayment with the id of no booking, addClientPayment with the id
\* of no client and addAgentPayment with the id of no agent leave the bookings,
\* the clients, the agents, the treasuries and the transactions as they were.
C19_UnknownPartyChangesNothing ==
    ( /\ lastOp.op \in {"addBookingPayment", "addClientPayment", "addAgentPayment"}
      /\ ~lastOp.found ) =>
        /\ bookings = prev.bookings
        /\ allBookings = prev.allBookings
        /\ clients = prev.clients
        /\ agents = prev.agents
        /\ treasury = prev.treasury
        /\ transactions = prev.transactions
        /\ allTransactions = prev.allTransactions

\* The total of finalAmount over the payments of a booking
TotalPaid(booking) ==
    SumSeq([k \in 1..Len(booking.payments) |-> booking.payments[k].finalAmount])

-----------------------------------------------------------------------------
(* Properties of the bookings list *)

\* search is a substring of text, letter case aside
ContainsIgnoringCase(text, search) ==
    \E i \in 1..Len(text) :
        /\ i + Len(search) - 1 <= Len(text)
        /\ \A k \in 1..Len(search) : LowerChar(text[i + k - 1]) = LowerChar(search[k])

\* The booking matches the search and the filters
Matches(b, search, filters) ==
    /\ search # NoText =>
          \/ ContainsIgnoringCase(b.clientName, search)
          \/ ContainsIgnoringCase(b.fileNo, search)
          \/ ContainsIgnoringCase(b.destination, search)
    /\ filters.dateFrom # NoDate => filters.dateFrom <= b.date
    /\ filters.dateTo # NoDate => b.date <= filters.dateTo
    /\ filters.type # NoType => b.type = filters.type

\* The positions in allBookings of the bookings that match the last fetch
Matching == {i \in 1..Len(allBookings) :
                Matches(allBookings[i], lastOp.search, lastOp.filters)}

\* C21: in demo mode fetchBookings(page, search, filters) sets bookingsPage to
\* page, bookingsTotal to the number of matching bookings of allBookings, and
\* bookings to the elements (page-1)*25 .. page*25-1 of the matching list in
\* allBookings order: at most 25 bookings, all of them matching.
C21_FetchBookingsPage ==
    lastOp.op = "fetchBookings" =>
        LET from == (lastOp.page - 1) * PAGE_SIZE
            rest == Cardinality(Matching) - from
        IN  /\ bookingsPage = lastOp.page
            /\ bookingsTotal = Cardinality(Matching)
            /\ Len(bookings) = (IF rest < 0 THEN 0 ELSE Min(rest, PAGE_SIZE))
            /\ Len(bookings) <= PAGE_SIZE
            /\ \A k \in 1..Len(bookings) :
                  /\ Matches(bookings[k], lastOp.search, lastOp.filters)
                  /\ \E i \in Matching :
                        /\ bookings[k] = allBookings[i]
                        /\ Cardinality({j \in Matching : j < i}) = from + k - 1

\* C21 witness: the second page of more than 25 matching bookings, cut out of a
\* list in which some bookings do not match
C21_Witness ==
    /\ lastOp.op = "fetchBookings"
    /\ lastOp.page = 2
    /\ lastOp.search # NoText
    /\ Cardinality(Matching) > PAGE_SIZE
    /\ Cardinality(Matching) < Len(allBookings)
    /\ bookings # << >>

\* C22: the statistics use all data: in every state of the mounted store
\* stats.bookingsCount is the number of bookings in allBookings, and
\* stats.totalPending is stats.totalSales - stats.totalPaid.
C22_StatsUseAllData ==
    loaded =>
        /\ Stats.bookingsCount = Len(allBookings)
        /\ Stats.totalPending = Stats.totalSales - Stats.totalPaid

-----------------------------------------------------------------------------
(* Properties of the filter effect of the bookings list *)

\* The last call of fetchBookings came from the timeout and asked for page 1
\* with the values the filter fields hold now
FetchedCurrentFilters ==
    /\ lastOp.op = "fetchBookings"
    /\ lastOp.by = "debounce"
    /\ lastOp.page = 1
    /\ [search |-> lastOp.search, filters |-> lastOp.filters] = listFilters

\* No pending or fired call of the effect holds superseded values, and a change of
\* the filters calls nothing itself
NoSupersededFetch ==
    /\ delayDebounceFn # << >> => delayDebounceFn[1] = listFilters
    /\ (lastOp.op = "fetchBookings" /\ lastOp.by = "debounce") => FetchedCurrentFilters
    /\ lastOp.op = "changeFilters" =>
          /\ bookings = prev.bookings
          /\ bookingsTotal = prev.bookingsTotal
          /\ delayDebounceFn = <<lastOp.values>>

\* C23: filter changes on the bookings list are debounced: a change during the
\* delay cancels the pending call, so no fetch fires with superseded filter
\* values, and once a call is pending a fetch of page 1 with the final values
\* eventually fires.
C23_FilterChangesDebounced ==
    /\ []NoSupersededFetch
    /\ (delayDebounceFn # << >>) ~> (FetchedCurrentFilters /\ delayDebounceFn = << >>)

\* C23 witness: a second change within the delay replaced the call the first
\* change had left pending
C23_Witness ==
    /\ lastOp.op = "changeFilters"
    /\ prevOp.op = "changeFilters"
    /\ lastOp.values # prevOp.values
    /\ delayDebounceFn = <<lastOp.values>>

-----------------------------------------------------------------------------
(* Properties of the notifications *)

\* C24: auto-dismiss never clears a newer notification: the timer started by one
\* showNotification call sets notification to null only if the notification
\* shown is the one that call created; any other notification stays until its
\* own timer fires.
C24_TimerDismissesOnlyItsOwn ==
    [][ \A timer \in timers :
            (timer \notin timers' /\ notification # << >> /\ notification[1] # timer)
                => notification' = notification ]_vars

-----------------------------------------------------------------------------
(* Properties of the settings page *)

\* C25: when saving the settings form fails with a storage error, the error
\* notification is shown (until its timeout fires) and no success notification,
\* the page does not navigate
\* to the dashboard, and the store's companySettings and smartAlerts are the same
\* as before the save attempt.
C25_FailedSaveChangesNothing ==
    (lastOp.op = "handleSubmit" /\ lastOp.failed) =>
        /\ (\E timer \in timers : timer.id = lastOp.id) =>
              (notification # << >> /\ notification[1].type = "error")
        /\ ~lastOp.navigated
        /\ companySettings = prev.companySettings
        /\ smartAlerts = prev.smartAlerts

-----------------------------------------------------------------------------
(* Properties of the session *)

\* The user kept under 'hawana_current_user', read back; << >> when there is none
PersistedUser == IF storedUser = << >> THEN << >> ELSE <<JSONParseUser(storedUser)>>

\* The users that may log in with the name and password of the last login
Admitted ==
    {i \in 1..Len(users) : /\ users[i].username = lastOp.username
                           /\ users[i].password = lastOp.password
                           /\ users[i].isActive}

\* C26: login returns true, sets currentUser and persists it exactly when users
\* holds an active user with that username and password, and otherwise returns
\* false and leaves currentUser and the persisted user unchanged; after logout
\* both are empty; after login, logout or updateUser the persisted user equals
\* currentUser.
C26_SessionFollowsLogin ==
    /\ lastOp.op = "login" =>
          /\ lastOp.result <=> Admitted # {}
          /\ lastOp.result =>
                \E i \in Admitted : currentUser = <<users[i]>> /\ PersistedUser = <<users[i]>>
          /\ ~lastOp.result =>
                currentUser = prev.currentUser /\ storedUser = prev.storedUser
    /\ lastOp.op = "logout" => (currentUser = << >> /\ storedUser = << >>)
    /\ lastOp.op \in {"login", "logout", "updateUser"} => PersistedUser = currentUser

\* C26 witness: a user who has logged in is edited, and a later login with the old
\* password is turned down
C26_Witness ==
    /\ lastOp.op = "login"
    /\ ~lastOp.result
    /\ prevOp.op = "updateUser"
    /\ currentUser # << >>
    /\ currentUser[1].id = prevOp.id
    /\ currentUser[1].username = lastOp.username
    /\ PersistedUser = currentUser

-----------------------------------------------------------------------------
(* Properties of handlers that call an operation twice *)

\* The balance of an account, by id
BalanceOf(accounts, id) == ById(accounts, id).balance

\* C27: balance updates are never lost: after two addTransaction calls on the
\* same treasury, or two addBooking calls for the same client, made from the same
\* rendered snapshot, the balance reflects the sum of both amounts.
C27_NoLostBalanceUpdate ==
    /\ (/\ lastOp.op = "addTransaction twice"
        /\ lastOp.first.treasuryId = lastOp.second.treasuryId
        /\ lastOp.first.treasuryId \in IdsOf(prev.treasury)) =>
          BalanceOf(treasury, lastOp.first.treasuryId) =
              BalanceOf(prev.treasury, lastOp.first.treasuryId)
              + Signed(lastOp.first) + Signed(lastOp.second)
    /\ (/\ lastOp.op = "addBooking twice"
        /\ lastOp.first.clientName = lastOp.second.clientName
        /\ ClientByName(prev.clients, lastOp.first.clientName) # 0) =>
          LET i == ClientByName(prev.clients, lastOp.first.clientName)
          IN  clients[i].balance =
                  prev.clients[i].balance + lastOp.first.amount + lastOp.second.amount

\* The ids of the records are pairwise different
UniqueIds(s) == \A i, j \in 1..Len(s) : i # j => s[i].id # s[j].id

\* C28: generated ids are unique within their collection, for any sequence of
\* add operations, including several performed within the same millisecond.
C28_GeneratedIdsUnique ==
    /\ UniqueIds(allBookings)
    /\ UniqueIds(allTransactions)
    /\ UniqueIds(clients)
    /\ UniqueIds(treasury)

====
